---------------------------- MODULE Spec2Model ----------------------------
(***************************************************************************)
(* Scoring, filtering and ranking passes of the book/audiobook dashboards: *)
(*   main.py                      Streamlit audiobook explorer ("main")    *)
(*   bookApp.py lines 1-460       Streamlit book explorer ("streamlit")    *)
(*   bookApp.py lines 1037-1863   second Flask book explorer ("flask2")    *)
(*                                                                         *)
(* One run of a Streamlit script, or one Flask request, is one action: it  *)
(* recomputes the score columns of the table, filters it and sorts it.     *)
(*                                                                         *)
(* Numbers.  pandas floats are modelled as exact fractions <<n, d>> with   *)
(* d > 0, in lowest terms; <<0, 0>> is NaN (pandas' missing value) and    *)
(* <<1, 0>>, <<-1, 0>> are the infinities a division by zero yields.       *)
(* Integer columns (votes, pages, years, minutes) are integers.  Rounding  *)
(* of binary floating point is not modelled.                               *)
(***************************************************************************)
EXTENDS Integers, Sequences, FiniteSets, TLC

VARIABLES
    app,        \* which script is running: "main", "streamlit", "flask1" or "flask2"
    df,         \* the loaded table with its derived score columns (BOOKS_DF in Flask)
    C,          \* the corpus mean the scoring uses
    params,     \* widget values (Streamlit) or request arguments (Flask) of the last pass
    sorted_df,  \* the filtered, sorted table
    page,       \* Flask: the page of sorted_df that is rendered, and its page links
    error,      \* TRUE when the last pass raised instead of displaying a table
    call        \* the frame of a function of load_data while it runs: its locals and result

vars == <<app, df, C, params, sorted_df, page, error, call>>

-----------------------------------------------------------------------------
(* Bounds of the model *)

MaxItems == 2
MaxVotes == 2
MaxAnchor == 1

-----------------------------------------------------------------------------
(* Program constants *)

MAIN_DEFAULT_MIN_VOTES_THRESHOLD == 10
MAIN_DEFAULT_MIN_RATING_THRESHOLD == 4
MAIN_DEFAULT_WEIGHTED_SCORE_ANCHOR_VOTES == 30
MAIN_DEFAULT_MAX_PRICE == 1000

DEFAULT_MIN_VOTES_THRESHOLD == 50
DEFAULT_MIN_RATING_THRESHOLD == <<7, 2>>   \* 3.5
DEFAULT_LIKED_PERCENT_THRESHOLD == 75
DEFAULT_WEIGHTED_SCORE_ANCHOR_VOTES == 100
DEFAULT_VOTES_POWER == 1
MAX_VOTES_POWER == 2

C_prior_ratings_count == 200
FALLBACK_GLOBAL_MEAN == 3
MAX_PAGES_FOR_SLIDER == 3000
BOOKS_PER_PAGE == 24
window_size == 2

-----------------------------------------------------------------------------
(* Floats as fractions *)

NaN == <<0, 0>>

F(n) == <<n, 1>>

IsNaN(x) == x[2] = 0 /\ x[1] = 0

notna(x) == ~IsNaN(x)

IsFinite(x) == x[2] > 0

Sign(n) == IF n > 0 THEN 1 ELSE IF n < 0 THEN -1 ELSE 0

Abs(n) == IF n < 0 THEN -n ELSE n

RECURSIVE GCD(_, _)
GCD(a, b) == IF b = 0 THEN a ELSE GCD(b, a % b)

\* a fraction in lowest terms
Frac(n, d) == LET g == GCD(Abs(n), d) IN <<n \div g, d \div g>>

FAdd(a, b) ==
    IF IsNaN(a) \/ IsNaN(b) THEN NaN
    ELSE IF a[2] = 0 /\ b[2] = 0 THEN (IF a[1] = b[1] THEN a ELSE NaN)
    ELSE IF a[2] = 0 THEN a
    ELSE IF b[2] = 0 THEN b
    ELSE Frac(a[1] * b[2] + b[1] * a[2], a[2] * b[2])

FMul(a, b) ==
    IF IsNaN(a) \/ IsNaN(b) THEN NaN
    ELSE IF a[2] = 0 \/ b[2] = 0
         THEN (IF a[1] = 0 \/ b[1] = 0 THEN NaN ELSE <<Sign(a[1]) * Sign(b[1]), 0>>)
    ELSE Frac(a[1] * b[1], a[2] * b[2])

\* numpy division: x / 0 is +-inf, 0 / 0 is NaN, no exception
FDiv(a, b) ==
    IF IsNaN(a) \/ IsNaN(b) THEN NaN
    ELSE IF a[2] = 0 /\ b[2] = 0 THEN NaN
    ELSE IF b[2] = 0 THEN <<0, 1>>
    ELSE IF a[2] = 0 THEN (IF b[1] = 0 THEN a ELSE <<a[1] * Sign(b[1]), 0>>)
    ELSE IF b[1] = 0 THEN <<Sign(a[1]), 0>>
    ELSE IF b[1] > 0 THEN Frac(a[1] * b[2], a[2] * b[1])
    ELSE Frac(-(a[1] * b[2]), -(a[2] * b[1]))

\* a comparison with NaN on either side is False
FLe(a, b) ==
    /\ notna(a) /\ notna(b)
    /\ IF a[2] > 0 /\ b[2] > 0 THEN a[1] * b[2] <= b[1] * a[2]
       ELSE IF a[2] = 0 /\ b[2] = 0 THEN a[1] <= b[1]
       ELSE IF a[2] = 0 THEN a[1] < 0
       ELSE b[1] > 0

FGe(a, b) == FLe(b, a)

FEq(a, b) == FLe(a, b) /\ FLe(b, a)

FLt(a, b) == FLe(a, b) /\ ~FLe(b, a)

fillna(x, v) == IF IsNaN(x) THEN v ELSE x

RECURSIVE IntPow(_, _)
IntPow(b, e) == IF e = 0 THEN 1 ELSE b * IntPow(b, e - 1)

-----------------------------------------------------------------------------
(* Sequences *)

Range(s) == {s[i] : i \in 1..Len(s)}

RECURSIVE SumSeq(_)
SumSeq(s) == IF s = <<>> THEN F(0) ELSE FAdd(s[1], SumSeq(Tail(s)))

SeqsUpTo(S, n) == UNION {[1..k -> S] : k \in 1..n}

MeanCountingMissing(col) ==
    IF SelectSeq(col, notna) = <<>> THEN NaN
    ELSE FDiv(SumSeq(SelectSeq(col, notna)), F(Len(col)))

\* pandas Series.mean(): NaN entries are skipped; the mean of nothing is NaN
Mean(col) ==
    LET valid == SelectSeq(col, notna)
    IN  IF valid = <<>> THEN NaN ELSE FDiv(SumSeq(valid), F(Len(valid)))

Column(table, c) == [i \in 1..Len(table) |-> table[i][c]]

\* an integer column as floats
AsFloat(col) == [i \in 1..Len(col) |-> F(col[i])]


-----------------------------------------------------------------------------
(* Text columns.  A string is a sequence of one-character strings; a       *)
(* missing string (NaN in an object column) is NoStr.                       *)

NoStr == <<"<NaN>">>

\* A categorical column (language, format) holds plain strings; NoCat is its NaN
NoCat == "<NaN>"

Lower(ch) ==
    IF ch = "A" THEN "a" ELSE IF ch = "B" THEN "b" ELSE IF ch = "H" THEN "h" ELSE ch

lower(s) == [i \in 1..Len(s) |-> Lower(s[i])]

\* Series.astype(str): a missing value becomes the text "nan"
astype_str(s) == IF s = NoStr THEN <<"n", "a", "n">> ELSE s

\* str.contains(q, regex=False): q occurs as a contiguous substring
contains_literal(s, q) ==
    \E off \in 0..(Len(s) - Len(q)) : \A k \in 1..Len(q) : s[off + k] = q[k]

\* re.compile(q) raises for an unbalanced "(" (the only group character modelled)
regex_invalid(q) == \E k \in 1..Len(q) : q[k] = "("

\* str.contains(q) with the default regex=True, for patterns of literal
\* characters and the wildcard ".": re.search finds q at some offset
contains_regex(s, q) ==
    \E off \in 0..(Len(s) - Len(q)) :
        \A k \in 1..Len(q) : q[k] = "." \/ s[off + k] = q[k]

-----------------------------------------------------------------------------
(* Sorting: DataFrame.sort_values(by=key, ascending, na_position).          *)
(* Rows whose key is NaN keep their order and go last or first; the other  *)
(* rows are ordered by the key, rows with equal keys in an order the       *)
(* default (unstable) quicksort does not fix.                               *)

Perms(n) == {f \in [1..n -> 1..n] : \A i, j \in 1..n : i # j => f[i] # f[j]}

InOrder(a, b, ascending) == IF ascending THEN FLe(a, b) ELSE FGe(a, b)

\* the orders in which the values of the column `by` are sorted
OrderedBy(by, ascending) ==
    {g \in Perms(Len(by)) :
        \A i \in 1..(Len(by) - 1) : InOrder(by[g[i]], by[g[i + 1]], ascending)}

\* rows.sort_values(by, ascending, na_position), by being the sort column of
\* rows: the tables it can return
sort_values(rows, by, ascending, na_position) ==
    LET positions == [i \in 1..Len(rows) |-> i]
        HasKey(i) == notna(by[i])
        NoKey(i) == IsNaN(by[i])
        keyed == SelectSeq(positions, HasKey)
        nans == SelectSeq(positions, NoKey)
        keys == [i \in 1..Len(keyed) |-> by[keyed[i]]]
        place(g) == LET s == [i \in 1..Len(keyed) |-> keyed[g[i]]]
                    IN  IF na_position = "last" THEN s \o nans ELSE nans \o s
    IN  {[i \in 1..Len(rows) |-> rows[place(g)[i]]] : g \in OrderedBy(keys, ascending)}

-----------------------------------------------------------------------------
(* main.py *)

\* main.py:136-155
MainWeightedScoreBadDenominator(row, m, c) ==
    IF IsNaN(row.rating) THEN NaN
    ELSE IF m > 0 /\ row.votes = 0 THEN c
    ELSE FDiv(FAdd(FMul(F(row.votes), row.rating), FMul(F(m), c)),
              F(row.votes + m + 1))

MainWeightedScore(row, m, c) ==
    IF IsNaN(row.rating) THEN NaN
    ELSE IF m > 0 /\ row.votes = 0 THEN c
    ELSE FDiv(FAdd(FMul(F(row.votes), row.rating), FMul(F(m), c)),
              F(row.votes + m))

\* main.py:180-192: the slider's default is the whole price range of the table
MainDefaultPrice(table) ==
    LET prices == SelectSeq(Column(table, "price"), notna)
    IN  IF prices = <<>> THEN <<F(0), F(MAIN_DEFAULT_MAX_PRICE)>>
        ELSE <<CHOOSE x \in Range(prices) : \A y \in Range(prices) : FLe(x, y),
               CHOOSE x \in Range(prices) : \A y \in Range(prices) : FGe(x, y)>>

MaxOf(S) == CHOOSE x \in S : \A y \in S : y <= x

MinOf(S) == CHOOSE x \in S : \A y \in S : x <= y

\* main.py:197-204
MainMaxTimeHours(table) ==
    LET mx == MaxOf(Range(Column(table, "total_minutes")))
    IN  IF mx > 0 THEN (mx \div 60) + 1 ELSE 1

\* main.py:217-222
languages_to_filter(table, selected_languages) ==
    IF "All" \in selected_languages
    THEN {l \in Range(Column(table, "language")) : l # NoCat}
    ELSE selected_languages

\* main.py:259-265
MainSearchMask(row, search_query) ==
    \/ contains_regex(lower(astype_str(row.name)), search_query)
    \/ contains_regex(lower(astype_str(row.author)), search_query)
    \/ contains_regex(lower(astype_str(row.narrator)), search_query)

\* the mask with a price filter that lets a row without a price through
MainInitialMaskKeepingNoPrice(table, prm, row) ==
    /\ (IsNaN(row.price) \/ (FGe(row.price, prm.price[1]) /\ FLe(row.price, prm.price[2])))
    /\ row.total_minutes >= prm.time[1] * 60
    /\ row.total_minutes <= prm.time[2] * 60
    /\ LET langs == languages_to_filter(table, prm.selected_languages)
       IN  IF langs # {} THEN row.language \in langs ELSE row.language = NoCat
    /\ (prm.search_query # <<>> => MainSearchMask(row, prm.search_query))

\* main.py:245-266
MainInitialMask(table, prm, row) ==
    /\ FGe(row.price, prm.price[1])
    /\ FLe(row.price, prm.price[2])
    /\ row.total_minutes >= prm.time[1] * 60
    /\ row.total_minutes <= prm.time[2] * 60
    /\ LET langs == languages_to_filter(table, prm.selected_languages)
       IN  IF langs # {} THEN row.language \in langs ELSE row.language = NoCat
    /\ (prm.search_query # <<>> => MainSearchMask(row, prm.search_query))

\* main.py:274-277
MainQualityMaskNoFill(prm, row) ==
    /\ FGe(row.rating, prm.min_rating_threshold)
    /\ row.votes >= prm.min_votes_threshold

MainQualityMask(prm, row) ==
    /\ FGe(fillna(row.rating, F(0)), prm.min_rating_threshold)
    /\ row.votes >= prm.min_votes_threshold

MainFilteredQualityOnly(table, prm) ==
    LET quality(row) == MainQualityMask(prm, row)
    IN  SelectSeq(table, quality)

\* main.py:270-277
MainFiltered(table, prm) ==
    LET initial(row) == MainInitialMask(table, prm, row)
        quality(row) == MainQualityMask(prm, row)
    IN  SelectSeq(SelectSeq(table, initial), quality)

MainSortOptions ==
    {"Weighted Score (Recommended)", "Rating (High to Low)", "Votes (High to Low)",
     "Price (Low to High)", "Price (High to Low)", "Time (Shortest First)",
     "Time (Longest First)"}

\* main.py:282-296
MainSorted(filtered_df, sort_by) ==
    LET ws == Column(filtered_df, "weighted_score")
        rating == Column(filtered_df, "rating")
        votes == AsFloat(Column(filtered_df, "votes"))
        price == Column(filtered_df, "price")
        minutes == AsFloat(Column(filtered_df, "total_minutes"))
    IN  CASE sort_by = "Weighted Score (Recommended)" ->
                sort_values(filtered_df, ws, FALSE, "last")
          [] sort_by = "Rating (High to Low)" ->
                sort_values(filtered_df, rating, FALSE, "last")
          [] sort_by = "Votes (High to Low)" ->
                sort_values(filtered_df, votes, FALSE, "last")
          [] sort_by = "Price (Low to High)" ->
                sort_values(filtered_df, price, TRUE, "last")
          [] sort_by = "Price (High to Low)" ->
                sort_values(filtered_df, price, FALSE, "last")
          [] sort_by = "Time (Shortest First)" ->
                sort_values(filtered_df, minutes, TRUE, "last")
          [] sort_by = "Time (Longest First)" ->
                sort_values(filtered_df, minutes, FALSE, "last")

\* main.py:140-155: the weighted_score column
MainScored(table, m, c) ==
    [i \in 1..Len(table) |->
        [table[i] EXCEPT !.weighted_score = MainWeightedScore(table[i], m, c)]]

\* main.py:115
MainC(table) == Mean(Column(table, "rating"))

\* a run that takes the mean over the filtered rows instead of the whole table
MainRunScoringTheFiltered(table, prm) ==
    LET c == MainC(MainFiltered(table, prm))
        scored == MainScored(table, prm.m, c)
    IN  IF prm.search_query # <<>> /\ regex_invalid(prm.search_query)
        THEN {[df |-> scored, C |-> c, sorted_df |-> <<>>, error |-> TRUE]}
        ELSE {[df |-> scored, C |-> c, sorted_df |-> s, error |-> FALSE] :
                s \in MainSorted(MainFiltered(scored, prm), prm.sort_by)}

\* One run of the script, top to bottom (main.py:107-336), with widget values
\* prm: the tables it can end with (the sort leaves the order of ties open)
MainRun(table, prm) ==
    LET scored == MainScored(table, prm.m, MainC(table))
    IN  IF prm.search_query # <<>> /\ regex_invalid(prm.search_query)
        THEN {[df |-> scored, C |-> MainC(table), sorted_df |-> <<>>, error |-> TRUE]}
        ELSE {[df |-> scored, C |-> MainC(table), sorted_df |-> s, error |-> FALSE] :
                s \in MainSorted(MainFiltered(scored, prm), prm.sort_by)}

\* main.py:126-233: the widgets' defaults on the first run
MainDefaults(table) ==
    [m |-> MAIN_DEFAULT_WEIGHTED_SCORE_ANCHOR_VOTES,
     min_votes_threshold |-> MAIN_DEFAULT_MIN_VOTES_THRESHOLD,
     min_rating_threshold |-> F(MAIN_DEFAULT_MIN_RATING_THRESHOLD),
     price |-> MainDefaultPrice(table),
     time |-> <<0, MainMaxTimeHours(table)>>,
     selected_languages |-> {"All"},
     search_query |-> <<>>,
     sort_by |-> "Weighted Score (Recommended)"]

-----------------------------------------------------------------------------
(* bookApp.py, Streamlit section (lines 1-460) *)

\* the mean without the default for a table without ratings
StreamlitCWithoutDefault(table) == Mean(Column(table, "average_rating"))

\* bookApp.py:188
StreamlitC(table) ==
    LET mean == Mean(Column(table, "average_rating"))
    IN  IF notna(mean) THEN mean ELSE F(0)

\* bookApp.py:308-316
StWeightedScore(row, m_val, c) ==
    IF IsNaN(row.average_rating) THEN NaN
    ELSE IF m_val = 0 THEN row.average_rating
    ELSE FAdd(FMul(FDiv(F(row.ratings_count), F(row.ratings_count + m_val)),
                   row.average_rating),
              FMul(FDiv(F(m_val), F(row.ratings_count + m_val)), c))

\* bookApp.py:318-328 (integer exponents p; the slider also offers fractions)
PowerScoreNoPZeroCase(row, p) ==
    IF IsNaN(row.average_rating) THEN F(0)
    ELSE IF row.ratings_count > 0
         THEN FMul(row.average_rating, F(IntPow(row.ratings_count, p)))
    ELSE F(0)

PowerScoreDividing(row, p) ==
    IF IsNaN(row.average_rating) THEN F(0)
    ELSE IF p = 0 THEN row.average_rating
    ELSE IF row.ratings_count > 0
         THEN FDiv(row.average_rating, F(IntPow(row.ratings_count, p)))
    ELSE F(0)

PowerScore(row, p) ==
    fillna(IF IsNaN(row.average_rating) THEN F(0)
           ELSE IF p = 0 THEN fillna(row.average_rating, F(0))
           ELSE IF row.ratings_count > 0
                THEN FMul(row.average_rating, F(IntPow(row.ratings_count, p)))
           ELSE F(0),
           F(0))

\* bookApp.py:307-328: the two score columns
StreamlitScored(table, prm, c) ==
    [i \in 1..Len(table) |->
        [table[i] EXCEPT !.weighted_score = StWeightedScore(table[i], prm.m_val, c),
                         !.rating_votes_power_score = PowerScore(table[i], prm.p)]]

\* bookApp.py:252
all_genres_flat(table) == UNION {table[i].genres_list : i \in 1..Len(table)}

\* bookApp.py:260-268: whether the language multiselect is created
LanguageWidgetShown(table) ==
    LET unique_languages == Range(Column(table, "language_code"))
    IN  ~("Unknown" \in unique_languages /\ Cardinality(unique_languages) = 1
          /\ all_genres_flat(table) = {})

\* bookApp.py:279-284
StDefaultYearRange(table) ==
    LET years == Range(Column(table, "publication_year"))
        known == {y \in years : y > 0}
    IN  <<IF known # {} THEN MinOf(known) ELSE 1800, MaxOf(years)>>

\* bookApp.py:285-288
StDefaultPageRange(table) == <<0, MaxOf(Range(Column(table, "num_pages")))>>

\* bookApp.py:290-304: the price slider's range, or NoRange when no slider is made
NoRange == <<>>

StDefaultPriceRange(table) ==
    LET prices == Range(Column(table, "price"))
        positive == {x \in prices : x > 0}
        min_price == IF positive # {} THEN MinOf(positive) ELSE 0
        top == MaxOf(prices)
        max_price == IF min_price >= top /\ top > 0 THEN min_price + 1
                     ELSE IF min_price >= top /\ top = 0 THEN 100
                     ELSE top
    IN  IF Cardinality(prices) > 1 /\ max_price > min_price
        THEN <<min_price, max_price>>
        ELSE NoRange

\* bookApp.py:334-336
StSearchMask(row, search_query) ==
    \E s \in {row.title, row.authors, row.publisher, row.series} :
        contains_literal(lower(astype_str(s)), search_query)

\* bookApp.py:338-340
StQualityMask(prm, row) ==
    /\ row.ratings_count >= prm.min_votes_threshold
    /\ FGe(fillna(row.average_rating, F(0)), prm.min_rating_threshold)
    /\ row.likedPercent >= prm.min_liked_percent

\* the mask with a genre filter that asks for every selected genre
StCurrentMaskEveryGenre(table, prm, row) ==
    /\ (prm.search_query # <<>> => StSearchMask(row, prm.search_query))
    /\ StQualityMask(prm, row)
    /\ (prm.selected_genres # {} =>
            \A sg \in prm.selected_genres : sg \in row.genres_list)
    /\ (LanguageWidgetShown(table) /\ "All" \notin prm.selected_languages_multiselect
            /\ prm.selected_languages_multiselect # {} =>
            row.language_code \in prm.selected_languages_multiselect)
    /\ (prm.selected_formats # {} => row.bookFormat \in prm.selected_formats)
    /\ row.publication_year >= prm.selected_year_range[1]
    /\ row.publication_year <= prm.selected_year_range[2]
    /\ row.num_pages >= prm.page_range[1]
    /\ row.num_pages <= prm.page_range[2]
    /\ (prm.selected_price_range # NoRange =>
            /\ row.price >= prm.selected_price_range[1]
            /\ row.price <= prm.selected_price_range[2])

\* bookApp.py:331-356
StCurrentMask(table, prm, row) ==
    /\ (prm.search_query # <<>> => StSearchMask(row, prm.search_query))
    /\ StQualityMask(prm, row)
    /\ (prm.selected_genres # {} =>
            \E sg \in prm.selected_genres : sg \in row.genres_list)
    /\ (LanguageWidgetShown(table) /\ "All" \notin prm.selected_languages_multiselect
            /\ prm.selected_languages_multiselect # {} =>
            row.language_code \in prm.selected_languages_multiselect)
    /\ (prm.selected_formats # {} => row.bookFormat \in prm.selected_formats)
    /\ row.publication_year >= prm.selected_year_range[1]
    /\ row.publication_year <= prm.selected_year_range[2]
    /\ row.num_pages >= prm.page_range[1]
    /\ row.num_pages <= prm.page_range[2]
    /\ (prm.selected_price_range # NoRange =>
            /\ row.price >= prm.selected_price_range[1]
            /\ row.price <= prm.selected_price_range[2])

\* bookApp.py:358
StFiltered(table, prm) ==
    LET mask(row) == StCurrentMask(table, prm, row)
    IN  SelectSeq(table, mask)

StSortMethods ==
    {"rating_votes_power_score", "weighted_score", "average_rating", "ratings_count",
     "likedPercent", "pub_year_newest", "pub_year_oldest", "num_pages_asc",
     "num_pages_desc", "price_asc", "price_desc"}

\* bookApp.py:360-385
StSorted(filtered_df, selected_sort_method) ==
    LET power == Column(filtered_df, "rating_votes_power_score")
        ws == Column(filtered_df, "weighted_score")
        rating == Column(filtered_df, "average_rating")
        count == AsFloat(Column(filtered_df, "ratings_count"))
        liked == AsFloat(Column(filtered_df, "likedPercent"))
        year == AsFloat(Column(filtered_df, "publication_year"))
        pages == AsFloat(Column(filtered_df, "num_pages"))
        price == AsFloat(Column(filtered_df, "price"))
    IN  IF filtered_df = <<>> THEN {<<>>}
        ELSE CASE selected_sort_method = "pub_year_newest" ->
                    sort_values(filtered_df, year, FALSE, "last")
               [] selected_sort_method = "pub_year_oldest" ->
                    sort_values(filtered_df, year, TRUE, "first")
               [] selected_sort_method = "price_asc" ->
                    sort_values(filtered_df, price, TRUE, "first")
               [] selected_sort_method = "price_desc" ->
                    sort_values(filtered_df, price, FALSE, "last")
               [] selected_sort_method = "num_pages_asc" ->
                    sort_values(filtered_df, pages, TRUE, "first")
               [] selected_sort_method = "num_pages_desc" ->
                    sort_values(filtered_df, pages, FALSE, "last")
               [] selected_sort_method = "rating_votes_power_score" ->
                    sort_values(filtered_df, power, FALSE, "last")
               [] selected_sort_method = "weighted_score" ->
                    sort_values(filtered_df, ws, FALSE, "last")
               [] selected_sort_method = "average_rating" ->
                    sort_values(filtered_df, rating, FALSE, "last")
               [] selected_sort_method = "ratings_count" ->
                    sort_values(filtered_df, count, FALSE, "last")
               [] selected_sort_method = "likedPercent" ->
                    sort_values(filtered_df, liked, FALSE, "last")

\* One run of the script (bookApp.py:179-460) with widget values prm
StreamlitRun(table, prm) ==
    LET c == StreamlitC(table)
        scored == StreamlitScored(table, prm, c)
    IN  {[df |-> scored, C |-> c, sorted_df |-> s, error |-> FALSE] :
            s \in StSorted(StFiltered(scored, prm), prm.selected_sort_method)}

\* bookApp.py:195-304: the widgets' defaults on the first run
StreamlitDefaults(table) ==
    [search_query |-> <<>>,
     selected_sort_method |-> "rating_votes_power_score",
     p |-> DEFAULT_VOTES_POWER,
     m_val |-> DEFAULT_WEIGHTED_SCORE_ANCHOR_VOTES,
     min_votes_threshold |-> DEFAULT_MIN_VOTES_THRESHOLD,
     min_rating_threshold |-> DEFAULT_MIN_RATING_THRESHOLD,
     min_liked_percent |-> DEFAULT_LIKED_PERCENT_THRESHOLD,
     selected_genres |-> {},
     selected_languages_multiselect |-> {"All"},
     selected_formats |-> {},
     selected_year_range |-> StDefaultYearRange(table),
     page_range |-> StDefaultPageRange(table),
     selected_price_range |-> StDefaultPriceRange(table)]

-----------------------------------------------------------------------------
(* bookApp.py, second Flask application (lines 1037-1863) *)

\* bookApp.py:1131-1138
calculate_bayesian_rating(row, mean_rating, c_val) ==
    IF IsNaN(row.average_rating) \/ row.ratings_count = 0
    THEN (IF notna(row.average_rating) THEN row.average_rating ELSE mean_rating)
    ELSE FDiv(FAdd(FMul(F(c_val), mean_rating),
                   FMul(row.average_rating, F(row.ratings_count))),
              F(c_val + row.ratings_count))

\* bookApp.py:1122-1123
m_global_mean_rating(table) ==
    LET mean == Mean(Column(table, "average_rating"))
    IN  IF notna(mean) THEN mean ELSE F(FALLBACK_GLOBAL_MEAN)

\* bookApp.py:1119-1140: load_and_clean_data adds the bayesian_rating column
Flask2Loaded(table) ==
    [i \in 1..Len(table) |->
        [table[i] EXCEPT !.bayesian_rating =
            calculate_bayesian_rating(table[i], m_global_mean_rating(table),
                                      C_prior_ratings_count)]]

\* bookApp.py:1163-1165
MIN_PUB_YEAR(table) ==
    LET valid == {y \in Range(Column(table, "publication_year")) : y > 1000}
    IN  IF valid # {} THEN MinOf(valid) ELSE 1800

MAX_PUB_YEAR(table) == MaxOf(Range(Column(table, "publication_year")))

\* bookApp.py:1709-1714
Flask2SearchMask(row, query) ==
    \E s \in {row.title, row.authors, row.publisher, row.series} :
        contains_literal(lower(astype_str(s)), query)

\* bookApp.py:1707-1746: the filters, one after the other
Flask2Filtered(table, filters) ==
    LET search(row) == Flask2SearchMask(row, lower(filters.search_query))
        rating(row) == FGe(fillna(row.average_rating, F(0)), filters.min_rating)
        votes(row) == row.ratings_count >= filters.min_votes
        liked(row) == row.likedPercent >= filters.min_liked
        genres(row) == \E sg \in filters.genres : sg \in row.genres_list
        language(row) == row.language_code = filters.language
        format(row) == row.bookFormat = filters.book_format
        actual_min_year == MinOf({filters.pub_year_min, filters.pub_year_max})
        actual_max_year == MaxOf({filters.pub_year_min, filters.pub_year_max})
        year(row) == /\ row.publication_year >= actual_min_year
                     /\ row.publication_year <= actual_max_year
                     /\ row.publication_year > 0
        pages(row) == row.num_pages <= filters.max_pages
        s0 == table
        s1 == IF filters.search_query # <<>> THEN SelectSeq(s0, search) ELSE s0
        s2 == IF FLt(F(0), filters.min_rating) THEN SelectSeq(s1, rating) ELSE s1
        s3 == IF filters.min_votes > 0 THEN SelectSeq(s2, votes) ELSE s2
        s4 == IF filters.min_liked > 0 THEN SelectSeq(s3, liked) ELSE s3
        s5 == IF filters.genres # {} THEN SelectSeq(s4, genres) ELSE s4
        s6 == IF filters.language # "" THEN SelectSeq(s5, language) ELSE s5
        s7 == IF filters.book_format # "" THEN SelectSeq(s6, format) ELSE s6
        s8 == IF actual_min_year > MIN_PUB_YEAR(table) \/ actual_max_year < MAX_PUB_YEAR(table)
              THEN SelectSeq(s7, year) ELSE s7
    IN  IF filters.max_pages < MAX_PAGES_FOR_SLIDER THEN SelectSeq(s8, pages) ELSE s8


\* Python's string order: by code point, a proper prefix first
CharCode(ch) ==
    CASE ch = "(" -> 40 [] ch = "." -> 46 [] ch = "A" -> 65 [] ch = "B" -> 66
      [] ch = "a" -> 97 [] ch = "b" -> 98 [] ch = "n" -> 110 [] OTHER -> 0

StrLess(s, t) ==
    \E k \in 1..(Len(t)) :
        /\ \A j \in 1..(k - 1) : j <= Len(s) /\ s[j] = t[j]
        /\ (k > Len(s) \/ (k - 1 < Len(s) /\ CharCode(s[k]) < CharCode(t[k])))

\* bookApp.py:1749-1759
sort_options_map(sort_by) ==
    CASE sort_by = "popularity_desc" -> <<"bayesian_rating", FALSE, "ratings_count", FALSE>>
      [] sort_by = "ratings_count_desc" -> <<"ratings_count", FALSE, "average_rating", FALSE>>
      [] sort_by = "average_rating_desc" -> <<"average_rating", FALSE, "ratings_count", FALSE>>
      [] sort_by = "title_asc" -> <<"title", TRUE, "bayesian_rating", FALSE>>
      [] sort_by = "liked_percent_desc" -> <<"likedPercent", FALSE, "ratings_count", FALSE>>
      [] sort_by = "pub_year_desc" -> <<"publication_year", FALSE, "bayesian_rating", FALSE>>
      [] sort_by = "pub_year_asc" -> <<"publication_year", TRUE, "bayesian_rating", FALSE>>
      [] sort_by = "num_pages_asc" -> <<"num_pages", TRUE, "bayesian_rating", FALSE>>
      [] sort_by = "num_pages_desc" -> <<"num_pages", FALSE, "bayesian_rating", FALSE>>
      \* bookApp.py:1761: an unknown sort_by falls back to DEFAULT_SORT_ORDER
      [] OTHER -> <<"bayesian_rating", FALSE, "ratings_count", FALSE>>

Flask2SortOptions ==
    {"popularity_desc", "ratings_count_desc", "average_rating_desc", "title_asc",
     "liked_percent_desc", "pub_year_desc", "pub_year_asc", "num_pages_asc",
     "num_pages_desc"}

FloatColumns == {"average_rating", "bayesian_rating", "weighted_score",
                 "rating_votes_power_score"}

\* bookApp.py:1768-1776: the sort column of the filtered copy has its NaN replaced
FillSortColumn(rows, col, asc) ==
    IF col \in FloatColumns
    THEN [i \in 1..Len(rows) |->
            [rows[i] EXCEPT ![col] = fillna(rows[i][col], IF asc THEN <<1, 0>> ELSE F(-1))]]
    ELSE rows

\* the value of a column as a sort key
KeyLess(a, b, col) ==
    IF col = "title" THEN StrLess(lower(a[col]), lower(b[col]))
    ELSE IF col \in FloatColumns THEN FLt(a[col], b[col])
    ELSE a[col] < b[col]

\* a comes strictly before b under the two sort columns
Before(a, b, sp) ==
    LET first == IF sp[2] THEN KeyLess(a, b, sp[1]) ELSE KeyLess(b, a, sp[1])
        firstRev == IF sp[2] THEN KeyLess(b, a, sp[1]) ELSE KeyLess(a, b, sp[1])
        second == IF sp[4] THEN KeyLess(a, b, sp[3]) ELSE KeyLess(b, a, sp[3])
    IN  first \/ (~firstRev /\ second)

\* bookApp.py:1778-1788: sort_values on two columns is a stable (lexsort) sort
Flask2Sorted(filtered_df, sort_by) ==
    LET sp == sort_options_map(sort_by)
        rows == FillSortColumn(FillSortColumn(filtered_df, sp[1], sp[2]), sp[3], sp[4])
        n == Len(rows)
        f == CHOOSE g \in Perms(n) :
                \A i, j \in 1..n : i < j =>
                    \/ Before(rows[g[i]], rows[g[j]], sp)
                    \/ (~Before(rows[g[j]], rows[g[i]], sp) /\ g[i] < g[j])
    IN  IF filtered_df = <<>> THEN <<>> ELSE [i \in 1..n |-> rows[f[i]]]

Ellipsis == 0

RangeSeq(a, b) == IF b > a THEN [k \in 1..(b - a) |-> a + k - 1] ELSE <<>>

\* a window whose loop stops one page early
pagination_window_short(current_page, total_pages) ==
    IF total_pages <= 1 THEN <<>>
    ELSE IF total_pages <= 5 + (window_size * 2) THEN RangeSeq(1, total_pages + 1)
    ELSE LET w1 == <<1>>
             w2 == IF current_page > window_size + 2 THEN Append(w1, Ellipsis) ELSE w1
             NotYet(i) == i \notin Range(w2)
             w3 == w2 \o SelectSeq(RangeSeq(MaxOf({2, current_page - window_size}),
                                            MinOf({total_pages, current_page + window_size})),
                                   NotYet)
             w4 == IF current_page < total_pages - (window_size + 1)
                   THEN Append(w3, Ellipsis) ELSE w3
         IN  IF total_pages \notin Range(w4) THEN Append(w4, total_pages) ELSE w4

\* bookApp.py:1800-1815
pagination_window(current_page, total_pages) ==
    IF total_pages <= 1 THEN <<>>
    ELSE IF total_pages <= 5 + (window_size * 2) THEN RangeSeq(1, total_pages + 1)
    ELSE LET w1 == <<1>>
             w2 == IF current_page > window_size + 2 THEN Append(w1, Ellipsis) ELSE w1
             NotYet(i) == i \notin Range(w2)
             w3 == w2 \o SelectSeq(RangeSeq(MaxOf({2, current_page - window_size}),
                                            MinOf({total_pages, current_page + window_size + 1})),
                                   NotYet)
             w4 == IF current_page < total_pages - (window_size + 1)
                   THEN Append(w3, Ellipsis) ELSE w3
         IN  IF total_pages \notin Range(w4) THEN Append(w4, total_pages) ELSE w4

\* a pagination whose pages start one book early
PaginateOverlapping(sorted, requested_page) ==
    LET page1 == IF requested_page < 1 THEN 1 ELSE requested_page
        total_filtered_books == Len(sorted)
        total_pages == (total_filtered_books + BOOKS_PER_PAGE - 1) \div BOOKS_PER_PAGE
        current_page == IF page1 > total_pages /\ total_pages > 0 THEN total_pages ELSE page1
        start_index == (current_page - 1) * (BOOKS_PER_PAGE - 1)
        end_index == start_index + BOOKS_PER_PAGE
    IN  [current_page |-> current_page,
         total_pages |-> total_pages,
         books |-> SubSeq(sorted, start_index + 1, MinOf({end_index, total_filtered_books})),
         pagination_window |-> pagination_window(current_page, total_pages)]

\* a pagination that serves the requested page even past the last one
PaginateWithoutClamp(sorted, requested_page) ==
    LET current_page == IF requested_page < 1 THEN 1 ELSE requested_page
        total_filtered_books == Len(sorted)
        total_pages == (total_filtered_books + BOOKS_PER_PAGE - 1) \div BOOKS_PER_PAGE
        start_index == (current_page - 1) * BOOKS_PER_PAGE
        end_index == start_index + BOOKS_PER_PAGE
    IN  [current_page |-> current_page,
         total_pages |-> total_pages,
         books |-> SubSeq(sorted, start_index + 1, MinOf({end_index, total_filtered_books})),
         pagination_window |-> pagination_window(current_page, total_pages)]

\* bookApp.py:1689-1691, 1791-1798
Paginate(sorted, requested_page) ==
    LET page1 == IF requested_page < 1 THEN 1 ELSE requested_page
        total_filtered_books == Len(sorted)
        total_pages == (total_filtered_books + BOOKS_PER_PAGE - 1) \div BOOKS_PER_PAGE
        current_page == IF page1 > total_pages /\ total_pages > 0 THEN total_pages ELSE page1
        start_index == (current_page - 1) * BOOKS_PER_PAGE
        end_index == start_index + BOOKS_PER_PAGE
    IN  [current_page |-> current_page,
         total_pages |-> total_pages,
         books |-> SubSeq(sorted, start_index + 1, MinOf({end_index, total_filtered_books})),
         pagination_window |-> pagination_window(current_page, total_pages)]

\* One request to index() (bookApp.py:1684-1853) with arguments req.
\* BOOKS_DF is only read: the handler works on BOOKS_DF.copy().
Flask2Index(table, req) ==
    LET sorted == Flask2Sorted(Flask2Filtered(table, req), req.sort_by)
    IN  [sorted_df |-> sorted, page |-> Paginate(sorted, req.page)]

\* bookApp.py:1689-1705: the arguments' defaults
Flask2Defaults(table) ==
    [page |-> 1,
     search_query |-> <<>>,
     sort_by |-> "popularity_desc",
     min_rating |-> F(0),
     min_votes |-> 0,
     min_liked |-> 0,
     genres |-> {},
     language |-> "",
     book_format |-> "",
     pub_year_min |-> MIN_PUB_YEAR(table),
     pub_year_max |-> MAX_PUB_YEAR(table),
     max_pages |-> MAX_PAGES_FOR_SLIDER]

-----------------------------------------------------------------------------
(* bookApp.py, the first Flask application (bookApp.py:488-982).  Its       *)
(* loader cleans the table as the Streamlit one does and adds no score.     *)

\* bookApp.py:548-549
Flask1MinPubYear(table) ==
    LET valid == {y \in Range(Column(table, "publication_year")) : y > 0}
    IN  IF valid # {} THEN MinOf(valid) ELSE 1800

Flask1MaxPubYear(table) == MaxOf(Range(Column(table, "publication_year")))

\* bookApp.py:902, 931: the value of max_pages that means "show all"
Flask1ShowAllPages == 2000

\* bookApp.py:908-913
Flask1SearchMask(row, query) ==
    \E s \in {row.title, row.authors, row.publisher, row.series} :
        contains_literal(lower(astype_str(s)), query)

\* bookApp.py:906-932: the filters, one after the other
Flask1Filtered(table, filters) ==
    LET search(row) == Flask1SearchMask(row, lower(filters.search_query))
        rating(row) == FGe(fillna(row.average_rating, F(0)), filters.min_rating)
        votes(row) == row.ratings_count >= filters.min_votes
        liked(row) == row.likedPercent >= filters.min_liked
        genres(row) == \E sg \in filters.genres : sg \in row.genres_list
        language(row) == row.language_code = filters.language
        format(row) == row.bookFormat = filters.book_format
        year(row) == /\ row.publication_year >= filters.pub_year_min
                     /\ row.publication_year <= filters.pub_year_max
        pages(row) == row.num_pages <= filters.max_pages
        s0 == table
        s1 == IF filters.search_query # <<>> THEN SelectSeq(s0, search) ELSE s0
        s2 == IF FLt(F(0), filters.min_rating) THEN SelectSeq(s1, rating) ELSE s1
        s3 == IF filters.min_votes > 0 THEN SelectSeq(s2, votes) ELSE s2
        s4 == IF filters.min_liked > 0 THEN SelectSeq(s3, liked) ELSE s3
        s5 == IF filters.genres # {} THEN SelectSeq(s4, genres) ELSE s4
        s6 == IF filters.language # "" THEN SelectSeq(s5, language) ELSE s5
        s7 == IF filters.book_format # "" THEN SelectSeq(s6, format) ELSE s6
        s8 == IF \/ filters.pub_year_min > Flask1MinPubYear(table)
                 \/ filters.pub_year_max < Flask1MaxPubYear(table)
              THEN SelectSeq(s7, year) ELSE s7
    IN  IF filters.max_pages < Flask1ShowAllPages THEN SelectSeq(s8, pages) ELSE s8

\* bookApp.py:938-944; an unknown sort_by falls back to ratings_count, descending
Flask1SortOptionsMap(sort_by) ==
    CASE sort_by = "ratings_count_desc" -> <<"ratings_count", FALSE>>
      [] sort_by = "average_rating_desc" -> <<"average_rating", FALSE>>
      [] sort_by = "title_asc" -> <<"title", TRUE>>
      [] sort_by = "liked_percent_desc" -> <<"likedPercent", FALSE>>
      [] sort_by = "pub_year_desc" -> <<"publication_year", FALSE>>
      [] sort_by = "pub_year_asc" -> <<"publication_year", TRUE>>
      [] sort_by = "num_pages_asc" -> <<"num_pages", TRUE>>
      [] sort_by = "num_pages_desc" -> <<"num_pages", FALSE>>
      [] OTHER -> <<"ratings_count", FALSE>>

Flask1SortOptions ==
    {"ratings_count_desc", "average_rating_desc", "title_asc", "liked_percent_desc",
     "pub_year_desc", "pub_year_asc", "num_pages_asc", "num_pages_desc"}

\* bookApp.py:953: sort_values on a text column with key=str.lower.  The column
\* went through astype(str), so no key is missing; rows with equal keys come
\* out in any order.
sort_values_lower(rows, by, ascending) ==
    LET n == Len(rows)
        InOrderStr(a, b) == IF ascending THEN ~StrLess(lower(b), lower(a))
                            ELSE ~StrLess(lower(a), lower(b))
    IN  {[i \in 1..n |-> rows[g[i]]] :
            g \in {h \in Perms(n) :
                     \A i \in 1..(n - 1) : InOrderStr(by[h[i]], by[h[i + 1]])}}

\* bookApp.py:946-953: the possible results of the sort
Flask1Sorted(filtered_df, sort_by) ==
    LET sort_col == Flask1SortOptionsMap(sort_by)[1]
        sort_asc == Flask1SortOptionsMap(sort_by)[2]
        na_position == IF sort_asc THEN "last" ELSE "first"
    IN  IF filtered_df = <<>> THEN {<<>>}
        ELSE IF sort_col = "title"
        THEN sort_values_lower(filtered_df, Column(filtered_df, "title"), sort_asc)
        ELSE IF sort_col \in FloatColumns
        THEN sort_values(filtered_df, Column(filtered_df, sort_col), sort_asc, na_position)
        ELSE sort_values(filtered_df, AsFloat(Column(filtered_df, sort_col)), sort_asc,
                         na_position)

\* One request to index() (bookApp.py:883-982): the possible results
Flask1Index(table, req) == Flask1Sorted(Flask1Filtered(table, req), req.sort_by)

\* bookApp.py:891-903: the arguments' defaults
Flask1Defaults(table) ==
    [search_query |-> <<>>,
     sort_by |-> "ratings_count_desc",
     min_rating |-> F(0),
     min_votes |-> 0,
     min_liked |-> 0,
     genres |-> {},
     language |-> "",
     book_format |-> "",
     pub_year_min |-> Flask1MinPubYear(table),
     pub_year_max |-> Flask1MaxPubYear(table),
     max_pages |-> Flask1ShowAllPages]

-----------------------------------------------------------------------------
(* The tables and the widget values of the model *)

Ratings == <<NaN, F(3), F(4)>>

Votes == 0..MaxVotes

\* an audiobook of main.py's table that differs from the others in rating and votes only
MainScoreItem(r, v) ==
    [idx |-> 0, name |-> <<"A">>, author |-> <<"b">>, narrator |-> <<"b">>, price |-> F(1),
     total_minutes |-> 30, language |-> "en", rating |-> r, votes |-> v,
     weighted_score |-> NaN]

\* a book of bookApp.py's table that differs from the others in rating and votes only
BookScoreItem(r, v) ==
    [idx |-> 0, title |-> <<"A">>, authors |-> <<"b">>, publisher |-> <<"b">>, series |-> <<"b">>,
     average_rating |-> r, ratings_count |-> v, likedPercent |-> 100,
     genres_list |-> {"g1"}, language_code |-> "en", bookFormat |-> "pb",
     publication_year |-> 2000, num_pages |-> 100, price |-> 0,
     weighted_score |-> NaN, rating_votes_power_score |-> NaN, bayesian_rating |-> NaN]

\* the (rating, votes) pairs of up to MaxItems rows.  The scores and the quality
\* filter work row by row and the mean does not depend on the order of the
\* rows, so the rows are listed by rating, then votes; SpecFilter has tables in
\* both orders.
ScorePairs ==
    {s \in SeqsUpTo((1..Len(Ratings)) \X Votes, MaxItems) :
        \A i \in 1..(Len(s) - 1) :
            \/ s[i][1] < s[i + 1][1]
            \/ s[i][1] = s[i + 1][1] /\ s[i][2] <= s[i + 1][2]}

\* a loaded table: the rows in file order, each with its index label
Table(items) == [i \in 1..Len(items) |-> [items[i] EXCEPT !.idx = i]]

MainScoreTables ==
    {Table([i \in 1..Len(s) |-> MainScoreItem(Ratings[s[i][1]], s[i][2])]) : s \in ScorePairs}

BookScoreTables ==
    {Table([i \in 1..Len(s) |-> BookScoreItem(Ratings[s[i][1]], s[i][2])]) : s \in ScorePairs}

Queries == {<<>>, <<"a">>, <<".">>, <<"(">>}

\* The values the model gives to the sliders: the smallest ones and the default
MainAnchorChoices == (0..MaxAnchor) \cup {MAIN_DEFAULT_WEIGHTED_SCORE_ANCHOR_VOTES}

MainMinVotesChoices == (0..MaxVotes) \cup {MAIN_DEFAULT_MIN_VOTES_THRESHOLD}

MainMinRatingChoices == {F(0), F(MAIN_DEFAULT_MIN_RATING_THRESHOLD)}

StAnchorChoices == (0..MaxAnchor) \cup {DEFAULT_WEIGHTED_SCORE_ANCHOR_VOTES}

StMinVotesChoices == (0..MaxVotes) \cup {DEFAULT_MIN_VOTES_THRESHOLD}

StMinRatingChoices == {F(0), DEFAULT_MIN_RATING_THRESHOLD}

MinLikedChoices == {0, DEFAULT_LIKED_PERCENT_THRESHOLD}

Flask2MinRatingChoices == {F(0), F(4)}

MaxPagesChoices == {0, MAX_PAGES_FOR_SLIDER}

PageChoices == {0, 1, 2}

\* the values a widget of main.py can be set to
MainChoices(w, table) ==
    CASE w = "m" -> MainAnchorChoices
      [] w = "min_votes_threshold" -> MainMinVotesChoices
      [] w = "min_rating_threshold" -> MainMinRatingChoices
      [] w = "price" -> {MainDefaultPrice(table), <<F(1), F(1)>>, <<F(2), F(2)>>}
      [] w = "time" -> {t \in (0..MainMaxTimeHours(table)) \X (0..MainMaxTimeHours(table)) :
                            t[1] <= t[2]}
      [] w = "selected_languages" -> SUBSET ({"All"} \cup languages_to_filter(table, {"All"}))
      [] w = "search_query" -> Queries
      [] w = "sort_by" -> MainSortOptions

\* the values a widget of the Streamlit section of bookApp.py can be set to
StreamlitChoices(w, table) ==
    CASE w = "m_val" -> StAnchorChoices
      [] w = "p" -> 0..MAX_VOTES_POWER
      [] w = "min_votes_threshold" -> StMinVotesChoices
      [] w = "min_rating_threshold" -> StMinRatingChoices
      [] w = "min_liked_percent" -> MinLikedChoices
      [] w = "search_query" -> Queries
      [] w = "selected_sort_method" -> StSortMethods
      [] w = "selected_genres" -> SUBSET all_genres_flat(table)
      [] w = "selected_languages_multiselect" ->
            SUBSET ({"All"} \cup (Range(Column(table, "language_code")) \ {"Unknown"}))
      [] w = "selected_formats" -> SUBSET (Range(Column(table, "bookFormat")) \ {"Unknown"})
      [] w = "selected_year_range" ->
            {StDefaultYearRange(table),
             <<StDefaultYearRange(table)[2], StDefaultYearRange(table)[2]>>}
      [] w = "page_range" -> {StDefaultPageRange(table), <<0, 0>>}
      [] w = "selected_price_range" ->
            IF StDefaultPriceRange(table) = NoRange THEN {NoRange}
            ELSE {StDefaultPriceRange(table),
                  <<StDefaultPriceRange(table)[1], StDefaultPriceRange(table)[1]>>}

\* the values an argument of a request to the second Flask application can take
Flask2Choices(w, table) ==
    CASE w = "min_rating" -> Flask2MinRatingChoices
      [] w = "min_votes" -> 0..MaxVotes
      [] w = "min_liked" -> MinLikedChoices
      [] w = "search_query" -> Queries
      [] w = "sort_by" -> Flask2SortOptions
      [] w = "genres" -> SUBSET all_genres_flat(table)
      [] w = "language" -> {""} \cup Range(Column(table, "language_code"))
      [] w = "book_format" -> {""} \cup Range(Column(table, "bookFormat"))
      [] w = "pub_year_min" -> {MIN_PUB_YEAR(table), MAX_PUB_YEAR(table)}
      [] w = "pub_year_max" -> {MIN_PUB_YEAR(table), MAX_PUB_YEAR(table)}
      [] w = "max_pages" -> MaxPagesChoices
      [] w = "page" -> PageChoices

Flask1MaxPagesChoices == {0, Flask1ShowAllPages}

\* the values an argument of a request to the first Flask application can take
Flask1Choices(w, table) ==
    CASE w = "min_rating" -> Flask2MinRatingChoices
      [] w = "min_votes" -> 0..MaxVotes
      [] w = "min_liked" -> MinLikedChoices
      [] w = "search_query" -> Queries
      [] w = "sort_by" -> Flask1SortOptions
      [] w = "genres" -> SUBSET all_genres_flat(table)
      [] w = "language" -> {""} \cup Range(Column(table, "language_code"))
      [] w = "book_format" -> {""} \cup Range(Column(table, "bookFormat"))
      [] w = "pub_year_min" -> {Flask1MinPubYear(table), Flask1MaxPubYear(table)}
      [] w = "pub_year_max" -> {Flask1MinPubYear(table), Flask1MaxPubYear(table)}
      [] w = "max_pages" -> Flask1MaxPagesChoices

NoPage == [current_page |-> 1, total_pages |-> 0, books |-> <<>>, pagination_window |-> <<>>]

-----------------------------------------------------------------------------
(* Initial states: the table as loaded and the first pass with every       *)
(* widget at its default                                                    *)

\* no function of load_data is running once the table is loaded
NoCall == [fn |-> "none"]

InitMain(tables) ==
    /\ app = "main"
    /\ \E table \in tables :
         /\ params = MainDefaults(table)
         /\ \E r \in MainRun(table, MainDefaults(table)) :
              df = r.df /\ C = r.C /\ sorted_df = r.sorted_df /\ error = r.error
    /\ page = NoPage
    /\ call = NoCall

InitStreamlit(tables) ==
    /\ app = "streamlit"
    /\ \E table \in tables :
         /\ params = StreamlitDefaults(table)
         /\ \E r \in StreamlitRun(table, StreamlitDefaults(table)) :
              df = r.df /\ C = r.C /\ sorted_df = r.sorted_df /\ error = r.error
    /\ page = NoPage
    /\ call = NoCall

\* module load (BOOKS_DF) and the first request, without arguments
InitFlask2(tables) ==
    /\ app = "flask2"
    /\ \E table \in tables :
         /\ df = Flask2Loaded(table)
         /\ C = m_global_mean_rating(table)
         /\ params = Flask2Defaults(table)
         /\ LET r == Flask2Index(Flask2Loaded(table), Flask2Defaults(table))
            IN  sorted_df = r.sorted_df /\ page = r.page
    /\ error = FALSE
    /\ call = NoCall

\* module load (BOOKS_DF) of the first Flask application and the first request
InitFlask1(tables) ==
    /\ app = "flask1"
    /\ \E table \in tables :
         /\ df = table
         /\ params = Flask1Defaults(table)
         /\ sorted_df \in Flask1Index(table, Flask1Defaults(table))
    /\ C = NaN
    /\ page = NoPage
    /\ error = FALSE
    /\ call = NoCall

Init ==
    \/ InitMain(MainScoreTables)
    \/ InitStreamlit(BookScoreTables)
    \/ InitFlask2(BookScoreTables)

-----------------------------------------------------------------------------
(* Actions.  A Streamlit script reruns from the top whenever one widget    *)
(* changes.  A Flask request carries every argument; the page's form holds *)
(* the previous request's values, so the next request is modelled as       *)
(* differing from the last in one argument (every combination of           *)
(* arguments stays reachable).                                              *)

MainRerunOver(widgets) ==
    /\ app = "main"
    /\ \E w \in widgets : \E v \in MainChoices(w, df) :
         \E r \in MainRun(df, [params EXCEPT ![w] = v]) :
            /\ params' = [params EXCEPT ![w] = v]
            /\ df' = r.df /\ C' = r.C /\ sorted_df' = r.sorted_df /\ error' = r.error
    /\ UNCHANGED <<app, page, call>>

StreamlitRerunOver(widgets) ==
    /\ app = "streamlit"
    /\ \E w \in widgets : \E v \in StreamlitChoices(w, df) :
         \E r \in StreamlitRun(df, [params EXCEPT ![w] = v]) :
            /\ params' = [params EXCEPT ![w] = v]
            /\ df' = r.df /\ C' = r.C /\ sorted_df' = r.sorted_df /\ error' = r.error
    /\ UNCHANGED <<app, page, call>>

\* a handler that filters and sorts BOOKS_DF itself instead of a copy
Flask2RequestOverInPlace(args) ==
    /\ app = "flask2"
    /\ \E w \in args : \E v \in Flask2Choices(w, df) :
         LET r == Flask2Index(df, [params EXCEPT ![w] = v])
         IN  /\ params' = [params EXCEPT ![w] = v]
             /\ sorted_df' = r.sorted_df
             /\ df' = r.sorted_df
             /\ page' = r.page
    /\ error' = FALSE
    /\ UNCHANGED <<app, C, call>>

Flask2RequestOver(args) ==
    /\ app = "flask2"
    /\ \E w \in args : \E v \in Flask2Choices(w, df) :
         LET r == Flask2Index(df, [params EXCEPT ![w] = v])
         IN  /\ params' = [params EXCEPT ![w] = v]
             /\ sorted_df' = r.sorted_df
             /\ page' = r.page
    /\ error' = FALSE
    /\ UNCHANGED <<app, df, C, call>>

Flask1RequestOver(args) ==
    /\ app = "flask1"
    /\ \E w \in args : \E v \in Flask1Choices(w, df) :
         /\ params' = [params EXCEPT ![w] = v]
         /\ sorted_df' \in Flask1Index(df, [params EXCEPT ![w] = v])
    /\ UNCHANGED <<app, df, C, page, error, call>>

\* the scoring parameters and the quality thresholds
MainScoreWidgets == {"m", "min_votes_threshold", "min_rating_threshold"}

StreamlitScoreWidgets == {"m_val", "p", "min_votes_threshold", "min_rating_threshold"}

Flask2ScoreArgs == {"min_rating", "min_votes"}

MainRerun == MainRerunOver(MainScoreWidgets)

StreamlitRerun == StreamlitRerunOver(StreamlitScoreWidgets)

Flask2Request == Flask2RequestOver(Flask2ScoreArgs)

Next == MainRerun \/ StreamlitRerun \/ Flask2Request

Spec == Init /\ [][Next]_vars

-----------------------------------------------------------------------------
(* The filters.  SpecFilter runs the same passes on tables whose rows      *)
(* differ in every filtered column, with every filter widget varying; the  *)
(* scoring parameters and the sort order stay at their defaults.           *)

MainFilterRows ==
    <<[idx |-> 0, name |-> <<"A", "b">>, author |-> <<"b">>, narrator |-> NoStr, price |-> F(1),
       total_minutes |-> 30, language |-> "en", rating |-> F(5), votes |-> 60,
       weighted_score |-> NaN],
      [idx |-> 0, name |-> <<"b">>, author |-> NoStr, narrator |-> <<"b">>, price |-> F(2),
       total_minutes |-> 90, language |-> NoCat, rating |-> F(3), votes |-> 20,
       weighted_score |-> NaN],
      [idx |-> 0, name |-> <<"a", ".">>, author |-> <<"b">>, narrator |-> <<"b">>, price |-> NaN,
       total_minutes |-> 0, language |-> "en", rating |-> NaN, votes |-> 0,
       weighted_score |-> NaN],
      [idx |-> 0, name |-> <<"B">>, author |-> <<"b">>, narrator |-> <<"b">>, price |-> F(2),
       total_minutes |-> 60, language |-> "en", rating |-> NaN, votes |-> 10,
       weighted_score |-> NaN]>>

BookFilterRows ==
    <<[idx |-> 0, title |-> <<"A", "b">>, authors |-> <<"b">>, publisher |-> <<"b">>, series |-> <<"b">>,
       average_rating |-> F(5), ratings_count |-> 60, likedPercent |-> 100,
       genres_list |-> {"g1", "g2"}, language_code |-> "en", bookFormat |-> "pb",
       publication_year |-> 2000, num_pages |-> 100, price |-> 5,
       weighted_score |-> NaN, rating_votes_power_score |-> NaN, bayesian_rating |-> NaN],
      [idx |-> 0, title |-> <<"b">>, authors |-> <<"b">>, publisher |-> <<"b">>, series |-> <<"a">>,
       average_rating |-> F(3), ratings_count |-> 50, likedPercent |-> 50,
       genres_list |-> {"g2"}, language_code |-> "Unknown", bookFormat |-> "Unknown",
       publication_year |-> 0, num_pages |-> 0, price |-> 0,
       weighted_score |-> NaN, rating_votes_power_score |-> NaN, bayesian_rating |-> NaN],
      [idx |-> 0, title |-> <<"a", ".">>, authors |-> <<"b">>, publisher |-> <<"b">>, series |-> <<"b">>,
       average_rating |-> NaN, ratings_count |-> 0, likedPercent |-> 0,
       genres_list |-> {}, language_code |-> "en", bookFormat |-> "pb",
       publication_year |-> 1990, num_pages |-> 300, price |-> 9,
       weighted_score |-> NaN, rating_votes_power_score |-> NaN, bayesian_rating |-> NaN],
      [idx |-> 0, title |-> <<"B">>, authors |-> <<"b">>, publisher |-> <<"b">>, series |-> <<"b">>,
       average_rating |-> NaN, ratings_count |-> 70, likedPercent |-> 80,
       genres_list |-> {"g1"}, language_code |-> "en", bookFormat |-> "Unknown",
       publication_year |-> 2000, num_pages |-> 100, price |-> 5,
       weighted_score |-> NaN, rating_votes_power_score |-> NaN, bayesian_rating |-> NaN]>>

\* the rows in file order, and in the reverse order
FilterTables(rows) == {Table(rows), Table([i \in 1..Len(rows) |-> rows[Len(rows) + 1 - i]])}

InitFilter ==
    \/ InitMain(FilterTables(MainFilterRows))
    \/ InitStreamlit(FilterTables(BookFilterRows))
    \/ InitFlask2(FilterTables(BookFilterRows))
    \/ InitFlask1(FilterTables(BookFilterRows))

MainFilterWidgets ==
    {"min_rating_threshold", "price", "time", "selected_languages", "search_query"}

StreamlitFilterWidgets ==
    {"min_rating_threshold", "min_liked_percent", "search_query", "selected_genres",
     "selected_languages_multiselect", "selected_formats", "selected_year_range",
     "page_range", "selected_price_range"}

Flask2FilterArgs ==
    {"min_rating", "min_votes", "min_liked", "search_query", "genres", "language",
     "book_format", "pub_year_min", "pub_year_max", "max_pages"}

MainRerunFilters == MainRerunOver(MainFilterWidgets)

StreamlitRerunFilters == StreamlitRerunOver(StreamlitFilterWidgets)

Flask2RequestFilters == Flask2RequestOver(Flask2FilterArgs)

Flask1FilterArgs ==
    {"min_rating", "search_query", "genres", "language", "pub_year_min", "pub_year_max",
     "max_pages"}

Flask1RequestFilters == Flask1RequestOver(Flask1FilterArgs)

NextFilter ==
    MainRerunFilters \/ StreamlitRerunFilters \/ Flask2RequestFilters \/ Flask1RequestFilters

SpecFilter == InitFilter /\ [][NextFilter]_vars

-----------------------------------------------------------------------------
(* The sort.  SpecSort runs the passes with the sort option varying, and    *)
(* with it the scoring parameters, the rating threshold and the search,    *)
(* over tables with equal keys and with missing keys.                       *)

MainSortItem(name, r, v, price, minutes) ==
    [idx |-> 0, name |-> name, author |-> <<"b">>, narrator |-> <<"b">>, price |-> price,
     total_minutes |-> minutes, language |-> "en", rating |-> r, votes |-> v,
     weighted_score |-> NaN]

BookSortItem(title, r, v, liked, year, pages, price) ==
    [idx |-> 0, title |-> title, authors |-> <<"b">>, publisher |-> <<"b">>, series |-> <<"b">>,
     average_rating |-> r, ratings_count |-> v, likedPercent |-> liked,
     genres_list |-> {"g1"}, language_code |-> "en", bookFormat |-> "pb",
     publication_year |-> year, num_pages |-> pages, price |-> price,
     weighted_score |-> NaN, rating_votes_power_score |-> NaN, bayesian_rating |-> NaN]

\* two rated audiobooks with the same rating (so the same weighted score,
\* the mean being that rating) and an unrated one without a price
MainTiedRows ==
    <<MainSortItem(<<"b">>, F(4), 60, F(1), 30),
      MainSortItem(<<"A">>, F(4), 70, F(2), 90),
      MainSortItem(<<"a">>, NaN, 80, NaN, 0)>>

\* audiobooks with different ratings and an unrated one
MainMixedRows ==
    <<MainSortItem(<<"b">>, F(4), 60, F(1), 30),
      MainSortItem(<<"B">>, F(3), 20, F(2), 60),
      MainSortItem(<<"a">>, NaN, 80, F(2), 0)>>

\* two rated books with the same rating and an unrated one
BookTiedRows ==
    <<BookSortItem(<<"b">>, F(4), 60, 100, 2000, 100, 5),
      BookSortItem(<<"A">>, F(4), 70, 80, 1990, 300, 9),
      BookSortItem(<<"a">>, NaN, 80, 90, 1995, 0, 5)>>

\* books with different ratings and the same rating * votes, and an unrated one
BookMixedRows ==
    <<BookSortItem(<<"b">>, F(4), 60, 100, 2000, 100, 5),
      BookSortItem(<<"B">>, F(3), 80, 80, 1990, 300, 9),
      BookSortItem(<<"a">>, NaN, 80, 90, 1995, 0, 5)>>

\* a rated audiobook without votes and an unrated one
MainZeroVoteRows ==
    <<MainSortItem(<<"b">>, F(4), 0, F(1), 30),
      MainSortItem(<<"a">>, NaN, 80, F(2), 0)>>

MainSortTables ==
    FilterTables(MainTiedRows) \cup FilterTables(MainMixedRows)
        \cup FilterTables(MainZeroVoteRows)

BookSortTables == FilterTables(BookTiedRows) \cup FilterTables(BookMixedRows)

InitSort ==
    \/ InitMain(MainSortTables)
    \/ InitStreamlit(BookSortTables)
    \/ InitFlask1(BookSortTables)
    \/ InitFlask2(BookSortTables)

MainSortWidgets ==
    {"sort_by", "m", "min_votes_threshold", "min_rating_threshold", "search_query"}

StreamlitSortWidgets ==
    {"selected_sort_method", "m_val", "p", "min_rating_threshold", "search_query"}

FlaskSortArgs == {"sort_by", "min_rating", "search_query"}

Flask2SortArgs == {"sort_by", "min_rating", "search_query", "page"}

MainRerunSort == MainRerunOver(MainSortWidgets)

StreamlitRerunSort == StreamlitRerunOver(StreamlitSortWidgets)

Flask1RequestSort == Flask1RequestOver(FlaskSortArgs)

Flask2RequestSort == Flask2RequestOver(Flask2SortArgs)

NextSort == MainRerunSort \/ StreamlitRerunSort \/ Flask1RequestSort \/ Flask2RequestSort

SpecSort == InitSort /\ [][NextSort]_vars

-----------------------------------------------------------------------------
(* The claims *)

Rows == {df[i] : i \in 1..Len(df)}

\* the variants whose smoothed score is the weighted_score column
WeightedScoreApps == {"main", "streamlit"}

Displayed == {sorted_df[i] : i \in 1..Len(sorted_df)}

RatingOf(row) == IF app = "main" THEN row.rating ELSE row.average_rating

VotesOf(row) == IF app = "main" THEN row.votes ELSE row.ratings_count

\* the anchor m of the smoothed score: a widget, or the fixed prior count
AnchorOf ==
    IF app = "main" THEN params.m
    ELSE IF app = "streamlit" THEN params.m_val
    ELSE C_prior_ratings_count

\* the smoothed score of a row: weighted_score, or bayesian_rating in Flask
SmoothedOf(row) == IF app = "flask2" THEN row.bayesian_rating ELSE row.weighted_score

\* (v / (v + m)) * R + (m / (v + m)) * C
SpecWeighted(R, v, m, c) ==
    FAdd(FMul(FDiv(F(v), F(v + m)), R), FMul(FDiv(F(m), F(v + m)), c))

FMin(a, b) == IF FLe(a, b) THEN a ELSE b

FMax(a, b) == IF FLe(a, b) THEN b ELSE a

\* C1: in main.py and the Streamlit section, with m > 0 every rated row's
\* weighted_score equals (v/(v+m))*R + (m/(v+m))*C
C1_WeightedScoreFormula ==
    app \in WeightedScoreApps /\ AnchorOf > 0 =>
        \A row \in Rows :
            notna(RatingOf(row)) =>
                FEq(row.weighted_score,
                    SpecWeighted(RatingOf(row), VotesOf(row), AnchorOf, C))

C1_Witness ==
    /\ app = "main" /\ AnchorOf > 0
    /\ \E row \in Rows :
        /\ notna(RatingOf(row)) /\ VotesOf(row) > 0
        /\ ~FEq(RatingOf(row), C)
        /\ FLt(FMin(RatingOf(row), C), row.weighted_score)
        /\ FLt(row.weighted_score, FMax(RatingOf(row), C))

\* C2: with m = 0 every rated row's weighted_score equals its rating, whatever
\* its votes, in main.py and the Streamlit section
C2_AnchorZeroGivesRating ==
    app \in WeightedScoreApps /\ AnchorOf = 0 =>
        \A row \in Rows :
            notna(RatingOf(row)) => FEq(row.weighted_score, RatingOf(row))

\* C3: a rated row with zero votes and a positive anchor has the corpus mean
\* C as its smoothed score in all three variants
C3_ZeroVotesGivesMean ==
    AnchorOf > 0 =>
        \A row \in Rows :
            notna(RatingOf(row)) /\ VotesOf(row) = 0 => FEq(SmoothedOf(row), C)

\* C4: no displayed row of main.py or the Streamlit section has an undefined
\* (NaN or infinite) weighted_score while it has a rating
C4_NoUndefinedScoreDisplayed ==
    app \in WeightedScoreApps /\ ~error =>
        \A row \in Displayed :
            notna(RatingOf(row)) => IsFinite(row.weighted_score)

RatedRows == SelectSeq(df, LAMBDA row : notna(RatingOf(row)))

RatingSum(rows) == SumSeq([i \in 1..Len(rows) |-> RatingOf(rows[i])])

\* C5: in main.py and the Streamlit section a row's weighted_score is null
\* exactly when its rating is null (for m > 0 or votes > 0), C is the mean of
\* the rated rows alone, and a rated row's score is the one it has in the
\* table without the unrated rows
C5_UnratedRowsLeaveMeanAndScores ==
    app \in WeightedScoreApps =>
        /\ \A row \in Rows :
              AnchorOf > 0 \/ VotesOf(row) > 0 =>
                  (IsNaN(row.weighted_score) <=> IsNaN(RatingOf(row)))
        /\ RatedRows # <<>> =>
              /\ FEq(C, FDiv(RatingSum(RatedRows), F(Len(RatedRows))))
              /\ \A row \in Range(RatedRows) :
                    AnchorOf > 0 =>
                        FEq(row.weighted_score,
                            SpecWeighted(RatingOf(row), VotesOf(row), AnchorOf,
                                         FDiv(RatingSum(RatedRows), F(Len(RatedRows)))))

C5_Witness ==
    /\ app = "streamlit" /\ AnchorOf > 0
    /\ \E a, b \in Rows :
        /\ IsNaN(RatingOf(a)) /\ IsNaN(a.weighted_score)
        /\ notna(RatingOf(b)) /\ VotesOf(b) > 0 /\ notna(b.weighted_score)

\* C6: every rated row's smoothed score lies between its rating and C, for
\* every vote count and every anchor m >= 0, in all three variants
C6_ScoreBetweenRatingAndMean ==
    \A row \in Rows :
        notna(RatingOf(row)) =>
            /\ FLe(FMin(RatingOf(row), C), SmoothedOf(row))
            /\ FLe(SmoothedOf(row), FMax(RatingOf(row), C))

\* C7: rating_votes_power_score is 0 for an unrated row, the rating when
\* p = 0, 0 when p > 0 and the row has no votes, rating * votes^p otherwise,
\* and never null
C7_PowerScoreFourCases ==
    app = "streamlit" =>
        \A row \in Rows :
            /\ notna(row.rating_votes_power_score)
            /\ IF IsNaN(row.average_rating)
               THEN FEq(row.rating_votes_power_score, F(0))
               ELSE IF params.p = 0
               THEN FEq(row.rating_votes_power_score, row.average_rating)
               ELSE IF row.ratings_count = 0
               THEN FEq(row.rating_votes_power_score, F(0))
               ELSE FEq(row.rating_votes_power_score,
                        FMul(row.average_rating, F(IntPow(row.ratings_count, params.p))))

C7_Witness ==
    /\ app = "streamlit" /\ params.p = 0
    /\ \E a, b \in Rows :
        /\ notna(a.average_rating) /\ a.ratings_count = 0
        /\ FLt(F(0), a.rating_votes_power_score)
        /\ IsNaN(b.average_rating)

\* C8: for rows of equal rating R >= 0 the power score does not decrease with
\* the vote count, the step from 0 votes to 1 vote included
C8_PowerScoreMonotoneInVotes ==
    app = "streamlit" =>
        \A a, b \in Rows :
            /\ notna(a.average_rating) /\ FEq(a.average_rating, b.average_rating)
            /\ FLe(F(0), a.average_rating)
            /\ a.ratings_count <= b.ratings_count
            => FLe(a.rating_votes_power_score, b.rating_votes_power_score)

C8_Witness ==
    /\ app = "streamlit" /\ params.p > 0
    /\ \E a, b \in Rows :
        /\ notna(a.average_rating) /\ FEq(a.average_rating, b.average_rating)
        /\ a.ratings_count = 0 /\ b.ratings_count = 1
        /\ FLt(a.rating_votes_power_score, b.rating_votes_power_score)


\* the predicates that are applied whatever the widget values
MainAlwaysActive == {"price", "time", "language", "rating", "votes"}

StreamlitAlwaysActive == {"votes", "rating", "liked", "year", "pages"}

\* the predicates of the filter that the current widget values make active
ActivePredicates ==
    CASE app = "main" ->
            MainAlwaysActive
                \cup (IF params.search_query # <<>> THEN {"search"} ELSE {})
      [] app = "streamlit" ->
            StreamlitAlwaysActive
                \cup (IF params.search_query # <<>> THEN {"search"} ELSE {})
                \cup (IF params.selected_genres # {} THEN {"genres"} ELSE {})
                \cup (IF /\ LanguageWidgetShown(df)
                         /\ params.selected_languages_multiselect # {}
                         /\ "All" \notin params.selected_languages_multiselect
                      THEN {"language"} ELSE {})
                \cup (IF params.selected_formats # {} THEN {"format"} ELSE {})
                \cup (IF params.selected_price_range # NoRange THEN {"price"} ELSE {})
      [] app = "flask2" ->
            (IF params.search_query # <<>> THEN {"search"} ELSE {})
                \cup (IF FLt(F(0), params.min_rating) THEN {"rating"} ELSE {})
                \cup (IF params.min_votes > 0 THEN {"votes"} ELSE {})
                \cup (IF params.min_liked > 0 THEN {"liked"} ELSE {})
                \cup (IF params.genres # {} THEN {"genres"} ELSE {})
                \cup (IF params.language # "" THEN {"language"} ELSE {})
                \cup (IF params.book_format # "" THEN {"format"} ELSE {})
                \cup (IF \/ MinOf({params.pub_year_min, params.pub_year_max}) > MIN_PUB_YEAR(df)
                         \/ MaxOf({params.pub_year_min, params.pub_year_max}) < MAX_PUB_YEAR(df)
                      THEN {"year"} ELSE {})
                \cup (IF params.max_pages < MAX_PAGES_FOR_SLIDER THEN {"pages"} ELSE {})
      [] app = "flask1" ->
            (IF params.search_query # <<>> THEN {"search"} ELSE {})
                \cup (IF FLt(F(0), params.min_rating) THEN {"rating"} ELSE {})
                \cup (IF params.min_votes > 0 THEN {"votes"} ELSE {})
                \cup (IF params.min_liked > 0 THEN {"liked"} ELSE {})
                \cup (IF params.genres # {} THEN {"genres"} ELSE {})
                \cup (IF params.language # "" THEN {"language"} ELSE {})
                \cup (IF params.book_format # "" THEN {"format"} ELSE {})
                \cup (IF \/ params.pub_year_min > Flask1MinPubYear(df)
                         \/ params.pub_year_max < Flask1MaxPubYear(df)
                      THEN {"year"} ELSE {})
                \cup (IF params.max_pages < Flask1ShowAllPages THEN {"pages"} ELSE {})

MainSatisfies(pred, row) ==
    CASE pred = "price" ->
            FLe(params.price[1], row.price) /\ FLe(row.price, params.price[2])
      [] pred = "time" ->
            /\ params.time[1] * 60 <= row.total_minutes
            /\ row.total_minutes <= params.time[2] * 60
      [] pred = "language" ->
            IF "All" \in params.selected_languages
            THEN IF \E r \in Rows : r.language # NoCat THEN row.language # NoCat
                 ELSE row.language = NoCat
            ELSE IF params.selected_languages = {} THEN row.language = NoCat
            ELSE row.language \in params.selected_languages
      [] pred = "search" ->
            \E s \in {row.name, row.author, row.narrator} :
                contains_regex(lower(astype_str(s)), params.search_query)
      [] pred = "rating" ->
            IF IsNaN(row.rating) THEN FLe(params.min_rating_threshold, F(0))
            ELSE FLe(params.min_rating_threshold, row.rating)
      [] pred = "votes" -> params.min_votes_threshold <= row.votes

StreamlitSatisfies(pred, row) ==
    CASE pred = "search" ->
            \E s \in {row.title, row.authors, row.publisher, row.series} :
                contains_literal(lower(astype_str(s)), params.search_query)
      [] pred = "votes" -> params.min_votes_threshold <= row.ratings_count
      [] pred = "rating" ->
            IF IsNaN(row.average_rating) THEN FLe(params.min_rating_threshold, F(0))
            ELSE FLe(params.min_rating_threshold, row.average_rating)
      [] pred = "liked" -> params.min_liked_percent <= row.likedPercent
      [] pred = "genres" -> params.selected_genres \cap row.genres_list # {}
      [] pred = "language" -> row.language_code \in params.selected_languages_multiselect
      [] pred = "format" -> row.bookFormat \in params.selected_formats
      [] pred = "year" ->
            /\ params.selected_year_range[1] <= row.publication_year
            /\ row.publication_year <= params.selected_year_range[2]
      [] pred = "pages" ->
            params.page_range[1] <= row.num_pages /\ row.num_pages <= params.page_range[2]
      [] pred = "price" ->
            /\ params.selected_price_range[1] <= row.price
            /\ row.price <= params.selected_price_range[2]

Flask2Satisfies(pred, row) ==
    CASE pred = "search" ->
            \E s \in {row.title, row.authors, row.publisher, row.series} :
                contains_literal(lower(astype_str(s)), lower(params.search_query))
      [] pred = "rating" ->
            IF IsNaN(row.average_rating) THEN FLe(params.min_rating, F(0))
            ELSE FLe(params.min_rating, row.average_rating)
      [] pred = "votes" -> params.min_votes <= row.ratings_count
      [] pred = "liked" -> params.min_liked <= row.likedPercent
      [] pred = "genres" -> params.genres \cap row.genres_list # {}
      [] pred = "language" -> row.language_code = params.language
      [] pred = "format" -> row.bookFormat = params.book_format
      [] pred = "year" ->
            /\ row.publication_year > 0
            /\ \/ /\ params.pub_year_min <= row.publication_year
                  /\ row.publication_year <= params.pub_year_max
               \/ /\ params.pub_year_max <= row.publication_year
                  /\ row.publication_year <= params.pub_year_min
      [] pred = "pages" -> row.num_pages <= params.max_pages

Flask1Satisfies(pred, row) ==
    CASE pred = "search" ->
            \E s \in {row.title, row.authors, row.publisher, row.series} :
                contains_literal(lower(astype_str(s)), lower(params.search_query))
      [] pred = "rating" ->
            IF IsNaN(row.average_rating) THEN FLe(params.min_rating, F(0))
            ELSE FLe(params.min_rating, row.average_rating)
      [] pred = "votes" -> params.min_votes <= row.ratings_count
      [] pred = "liked" -> params.min_liked <= row.likedPercent
      [] pred = "genres" -> params.genres \cap row.genres_list # {}
      [] pred = "language" -> row.language_code = params.language
      [] pred = "format" -> row.bookFormat = params.book_format
      [] pred = "year" ->
            /\ params.pub_year_min <= row.publication_year
            /\ row.publication_year <= params.pub_year_max
      [] pred = "pages" -> row.num_pages <= params.max_pages

Satisfies(pred, row) ==
    CASE app = "main" -> MainSatisfies(pred, row)
      [] app = "streamlit" -> StreamlitSatisfies(pred, row)
      [] app = "flask2" -> Flask2Satisfies(pred, row)
      [] app = "flask1" -> Flask1Satisfies(pred, row)

DisplayedIdx == {sorted_df[j].idx : j \in 1..Len(sorted_df)}

\* C9: when a pass completes, the rows shown are exactly the rows of the table
\* that satisfy every active predicate, and each of them is shown once
C9_FilterIsConjunction ==
    ~error =>
        /\ DisplayedIdx =
              {i \in 1..Len(df) : \A pred \in ActivePredicates : Satisfies(pred, df[i])}
        /\ \A j, k \in 1..Len(sorted_df) : sorted_df[j].idx = sorted_df[k].idx => j = k

\* a search and a genre selection are active together with the thresholds; a
\* row is shown, a second row fails one predicate only and a third fails two
C9_Witness ==
    /\ app = "streamlit" /\ ~error
    /\ params.search_query # <<>> /\ params.selected_genres # {}
    /\ sorted_df # <<>>
    /\ \E row \in Rows :
          Cardinality({pred \in ActivePredicates : ~Satisfies(pred, row)}) = 1
    /\ \E row \in Rows :
          Cardinality({pred \in ActivePredicates : ~Satisfies(pred, row)}) >= 2

MinVotesOf ==
    IF app = "flask2" THEN params.min_votes ELSE params.min_votes_threshold

MinRatingOf ==
    IF app = "flask2" THEN params.min_rating ELSE params.min_rating_threshold

\* C10: the quality filter keeps a row exactly when its votes reach min_votes
\* and its rating, an unrated row counting as 0, reaches min_rating; so an
\* unrated row is shown only when min_rating is 0.  (Every other filter is at
\* its default here, which every row of these tables passes.)
C10_QualityFilter ==
    ~error =>
        /\ DisplayedIdx =
              {i \in 1..Len(df) :
                  /\ VotesOf(df[i]) >= MinVotesOf
                  /\ FGe(IF IsNaN(RatingOf(df[i])) THEN F(0) ELSE RatingOf(df[i]),
                         MinRatingOf)}
        /\ \A i \in DisplayedIdx :
              IsNaN(RatingOf(df[i])) => FEq(MinRatingOf, F(0))

\* main.py with min_rating 0: an unrated row with enough votes is shown while
\* a row with too few votes is removed
C10_Witness ==
    /\ app = "main" /\ ~error
    /\ FEq(MinRatingOf, F(0)) /\ MinVotesOf > 0
    /\ \E i \in DisplayedIdx : IsNaN(RatingOf(df[i]))
    /\ \E i \in 1..Len(df) : i \notin DisplayedIdx /\ VotesOf(df[i]) < MinVotesOf

-----------------------------------------------------------------------------
(* The genre filter *)

\* the variants that have a genre multi-select
GenreApps == {"streamlit", "flask1", "flask2"}

SelectedGenres == IF app = "streamlit" THEN params.selected_genres ELSE params.genres

\* the row passes every active predicate other than the genre one
PassesOtherThan(pred, row) ==
    \A q \in ActivePredicates \ {pred} : Satisfies(q, row)

\* C11: with a non-empty selection, a row that passes the other predicates is
\* shown exactly when its genre list shares a genre with the selection (so a
\* row without genres is never shown); with no genre selected the genre lists
\* play no part
C11_GenreFilterAnyOf ==
    app \in GenreApps /\ ~error =>
        /\ DisplayedIdx =
              {i \in 1..Len(df) :
                  /\ PassesOtherThan("genres", df[i])
                  /\ (SelectedGenres # {} => SelectedGenres \cap df[i].genres_list # {})}
        /\ SelectedGenres # {} =>
              \A i \in DisplayedIdx : df[i].genres_list # {}

\* two genres are selected in the first Flask application; a row with only
\* one of them is shown and a row without genres, which passes everything
\* else, is not
C11_Witness ==
    /\ app = "flask1"
    /\ Cardinality(SelectedGenres) = 2
    /\ \E i \in DisplayedIdx : Cardinality(df[i].genres_list \cap SelectedGenres) = 1
    /\ \E i \in 1..Len(df) :
          /\ df[i].genres_list = {}
          /\ PassesOtherThan("genres", df[i])
          /\ i \notin DisplayedIdx

\* no genre is selected and a row without genres is shown
C11_WitnessNoSelection ==
    /\ app \in GenreApps /\ SelectedGenres = {}
    /\ \E i \in DisplayedIdx : df[i].genres_list = {}

-----------------------------------------------------------------------------
(* The search *)

\* the text fields the search looks at, as the code reads them (astype(str))
SearchedFields(row) ==
    IF app = "main"
    THEN {astype_str(row.name), astype_str(row.author), astype_str(row.narrator)}
    ELSE {astype_str(row.title), astype_str(row.authors), astype_str(row.publisher),
          astype_str(row.series)}

\* the lower-cased query occurs as a contiguous substring of the lower-cased text
LiteralMatch(row) ==
    \E s \in SearchedFields(row) : contains_literal(lower(s), lower(params.search_query))

\* C12: with a non-empty query the pass never fails, and a row that passes
\* the other predicates is shown exactly when the lower-cased query occurs
\* literally in the lower-cased text of one of the searched fields; an empty
\* query imposes no constraint
C12_SearchIsLiteralSubstring ==
    /\ ~error
    /\ DisplayedIdx =
          {i \in 1..Len(df) :
              /\ PassesOtherThan("search", df[i])
              /\ (params.search_query # <<>> => LiteralMatch(df[i]))}

\* a pass with a query, in a variant that searches with regex=False
LiteralSearchApps == {"streamlit", "flask1", "flask2"}

C12_LiteralWhereRegexIsOff ==
    app \in LiteralSearchApps => C12_SearchIsLiteralSubstring

C12_LiteralWhereRegexIsOffReached ==
    /\ app \in LiteralSearchApps /\ params.search_query = <<".">>
    /\ Len(sorted_df) = 1

-----------------------------------------------------------------------------
(* Empty multi-selects *)

MainMultiSelects == {"selected_languages"}

StreamlitMultiSelects ==
    {"selected_genres", "selected_languages_multiselect", "selected_formats"}

\* the predicates that the multi-selects control
MultiSelectPredicates == {"genres", "language", "format"}

MultiSelectsHere ==
    IF app = "main" THEN MainMultiSelects
    ELSE IF app = "streamlit" THEN StreamlitMultiSelects
    ELSE {}

AllMultiSelectsEmpty ==
    MultiSelectsHere # {} /\ \A w \in MultiSelectsHere : params[w] = {}

\* some row passes every predicate that no multi-select controls
SomeRowPassesTheRest ==
    \E i \in 1..Len(df) :
        \A q \in ActivePredicates \ MultiSelectPredicates : Satisfies(q, df[i])

\* main.py's pass over its table with the language multi-select emptied and
\* every other widget at its default shows some row
MainEmptySelectionShowsRows ==
    \E t \in FilterTables(MainFilterRows) :
        \E r \in MainRun(t, [MainDefaults(t) EXCEPT !.selected_languages = {}]) :
            r.sorted_df # <<>>

\* the same for the Streamlit section, whose genre and format multi-selects
\* are empty by default
StEmptySelectionShowsRows ==
    \E t \in FilterTables(BookFilterRows) :
        \E r \in StreamlitRun(t, [StreamlitDefaults(t) EXCEPT
                                      !.selected_languages_multiselect = {}]) :
            r.sorted_df # <<>>

\* C13: an empty selection means the same in every multi-select of main.py
\* and of the Streamlit section, either no constraint or no match: a pass in
\* which every multi-select is empty, and some row passes the rest of the
\* filter, shows rows exactly if the other variant's pass with empty
\* multi-selects shows rows
C13_EmptySelectionUniform ==
    AllMultiSelectsEmpty /\ ~error /\ SomeRowPassesTheRest =>
        (sorted_df # <<>>) =
            (IF app = "main" THEN StEmptySelectionShowsRows ELSE MainEmptySelectionShowsRows)

\* Streamlit: every multi-select is empty and rows are shown
C13_StreamlitEmptyShowsRows ==
    app = "streamlit" /\ AllMultiSelectsEmpty /\ sorted_df # <<>>

\* main.py: the language multi-select is empty, a row with a language passes
\* the rest of the filter, and nothing is shown
C13_MainEmptyShowsNothing ==
    /\ app = "main" /\ AllMultiSelectsEmpty /\ ~error /\ sorted_df = <<>>
    /\ \E i \in 1..Len(df) :
          /\ df[i].language # NoCat
          /\ \A q \in ActivePredicates \ MultiSelectPredicates : Satisfies(q, df[i])

-----------------------------------------------------------------------------
(* The order of the rows shown *)

\* the column and the direction (TRUE: ascending) of each sort option of
\* main.py (main.py:230-237, 282-296) and of the Streamlit section
\* (bookApp.py:199-211, 360-385)
MainSortKey(sort_by) ==
    CASE sort_by = "Weighted Score (Recommended)" -> <<"weighted_score", FALSE>>
      [] sort_by = "Rating (High to Low)" -> <<"rating", FALSE>>
      [] sort_by = "Votes (High to Low)" -> <<"votes", FALSE>>
      [] sort_by = "Price (Low to High)" -> <<"price", TRUE>>
      [] sort_by = "Price (High to Low)" -> <<"price", FALSE>>
      [] sort_by = "Time (Shortest First)" -> <<"total_minutes", TRUE>>
      [] sort_by = "Time (Longest First)" -> <<"total_minutes", FALSE>>

StSortKey(method) ==
    CASE method = "pub_year_newest" -> <<"publication_year", FALSE>>
      [] method = "pub_year_oldest" -> <<"publication_year", TRUE>>
      [] method = "price_asc" -> <<"price", TRUE>>
      [] method = "price_desc" -> <<"price", FALSE>>
      [] method = "num_pages_asc" -> <<"num_pages", TRUE>>
      [] method = "num_pages_desc" -> <<"num_pages", FALSE>>
      [] OTHER -> <<method, FALSE>>

\* the primary sort column of the current pass and its direction
SortKeyHere ==
    CASE app = "main" -> MainSortKey(params.sort_by)
      [] app = "streamlit" -> StSortKey(params.selected_sort_method)
      [] app = "flask1" -> Flask1SortOptionsMap(params.sort_by)
      [] app = "flask2" -> <<sort_options_map(params.sort_by)[1], sort_options_map(params.sort_by)[2]>>

Ascending == SortKeyHere[2]

\* the columns that hold floats (a missing value is NaN) in main.py's table
MainFloatColumns == {"weighted_score", "rating", "price"}

IsFloatColumn(col) ==
    IF app = "main" THEN col \in MainFloatColumns ELSE col \in FloatColumns

\* the row's sort key is missing
NullKey(row) ==
    LET col == SortKeyHere[1]
    IN  IF col = "title" THEN row.title = NoStr
        ELSE IF IsFloatColumn(col) THEN IsNaN(row[col])
        ELSE FALSE

\* row a's sort key is strictly smaller than row b's (both present)
KeyBelow(a, b) ==
    LET col == SortKeyHere[1]
    IN  IF col = "title" THEN StrLess(lower(a.title), lower(b.title))
        ELSE IF IsFloatColumn(col) THEN FLt(a[col], b[col])
        ELSE a[col] < b[col]

Positions == 1..Len(sorted_df)

\* the variants C14 names
NullsLastApps == {"main", "streamlit", "flask1"}

\* C14: under every descending sort option of main.py, of the Streamlit
\* section and of the first Flask application, every row whose sort key is
\* missing comes after every row that has one
C14_DescendingNullsLast ==
    app \in NullsLastApps /\ ~Ascending =>
        \A i, j \in Positions :
            NullKey(sorted_df[i]) /\ ~NullKey(sorted_df[j]) => j < i

\* main.py and the Streamlit section alone
NullsLastByArgument == {"main", "streamlit"}

C14_NullsLastWhereAskedFor ==
    app \in NullsLastByArgument /\ ~Ascending =>
        \A i, j \in Positions :
            NullKey(sorted_df[i]) /\ ~NullKey(sorted_df[j]) => j < i

C14_NullsLastWhereAskedForReached ==
    /\ app \in NullsLastByArgument /\ ~Ascending
    /\ \E i, j \in Positions : NullKey(sorted_df[i]) /\ ~NullKey(sorted_df[j])

\* the variants C15 names
AscendingApps == {"main", "flask1", "flask2"}

RecommendedOrdering ==
    CASE app = "main" -> params.sort_by = "Weighted Score (Recommended)"
      [] app = "streamlit" -> params.selected_sort_method = "rating_votes_power_score"
      [] app = "flask2" -> params.sort_by = "popularity_desc"
      [] OTHER -> FALSE

\* two rows shown with the same, defined, primary score
SameScore(a, b) ==
    LET col == SortKeyHere[1]
    IN  notna(a[col]) /\ notna(b[col]) /\ FEq(a[col], b[col])

\* C16: in the recommended ordering of each variant, two rows shown with
\* equal primary score are in the order of their vote counts, larger first
C16_TiesByVotesDescending ==
    RecommendedOrdering /\ ~error =>
        \A i, j \in Positions :
            i < j /\ SameScore(sorted_df[i], sorted_df[j])
                => VotesOf(sorted_df[i]) >= VotesOf(sorted_df[j])

\* the second Flask application alone, which sorts on two columns
C16_Flask2TiesByVotes ==
    app = "flask2" => C16_TiesByVotesDescending

C16_Flask2TiesByVotesReached ==
    /\ app = "flask2" /\ RecommendedOrdering
    /\ \E i, j \in Positions :
          /\ i < j /\ SameScore(sorted_df[i], sorted_df[j])
          /\ VotesOf(sorted_df[i]) > VotesOf(sorted_df[j])

\* the variants C17 names
RankedApps == {"main", "streamlit"}

\* C17: in main.py and in the Streamlit section the rows shown are the
\* filtered rows, each once, and along them the sort key never increases
\* under a descending option and never decreases under an ascending one;
\* under the descending sort by weighted score the rated rows come in score
\* order and the unrated rows last
C17_RankedIsSortedPermutation ==
    app \in RankedApps /\ ~error =>
        /\ DisplayedIdx =
              {i \in 1..Len(df) : \A pred \in ActivePredicates : Satisfies(pred, df[i])}
        /\ \A i, j \in Positions : sorted_df[i].idx = sorted_df[j].idx => i = j
        /\ \A i, j \in Positions :
              i < j /\ ~NullKey(sorted_df[i]) /\ ~NullKey(sorted_df[j]) =>
                  IF Ascending THEN ~KeyBelow(sorted_df[j], sorted_df[i])
                  ELSE ~KeyBelow(sorted_df[i], sorted_df[j])
        /\ SortKeyHere[1] = "weighted_score" =>
              \A i, j \in Positions :
                  i < j =>
                      /\ notna(RatingOf(sorted_df[i])) /\ notna(RatingOf(sorted_df[j]))
                            => FGe(sorted_df[i].weighted_score, sorted_df[j].weighted_score)
                      /\ IsNaN(RatingOf(sorted_df[i])) => IsNaN(RatingOf(sorted_df[j]))

\* the pass gives a rated row an undefined score: main.py with m = 0 and a
\* rated row without votes (C2)
UndefinedScoreOfRatedRow ==
    app = "main" /\ \E row \in Rows : notna(row.rating) /\ IsNaN(row.weighted_score)

C17_RankedWhereScoresDefined ==
    ~UndefinedScoreOfRatedRow => C17_RankedIsSortedPermutation

\* main.py sorts by weighted score: two rated rows with different scores are
\* shown in the reverse of their file order, and an unrated row after them
C17_RankedWhereScoresDefinedReached ==
    /\ app = "main" /\ ~error /\ SortKeyHere[1] = "weighted_score"
    /\ Len(sorted_df) = 3
    /\ KeyBelow(sorted_df[2], sorted_df[1])
    /\ sorted_df[1].idx > sorted_df[2].idx
    /\ NullKey(sorted_df[3])

-----------------------------------------------------------------------------
(* The mean of a table without ratings *)

NoRatedRow == \A row \in Rows : IsNaN(RatingOf(row))

\* C18: for a non-empty table, one without a rated row included, no score
\* comes from an undefined C: the Streamlit section and the loader of the
\* second Flask application replace the undefined mean by their default
\* (0.0 and 3.0), and main.py, which leaves C undefined, does so only when
\* no row is rated, and then evaluates the formula for no row (every
\* weighted_score stays missing)
C18_NoScoreFromUndefinedMean ==
    df # <<>> =>
        CASE app = "streamlit" ->
                /\ notna(C)
                /\ NoRatedRow => C = F(0)
          [] app = "flask2" ->
                /\ notna(C)
                /\ NoRatedRow => C = F(FALLBACK_GLOBAL_MEAN)
                /\ \A row \in Rows : notna(row.bayesian_rating)
          [] app = "main" ->
                IsNaN(C) => NoRatedRow /\ \A row \in Rows : IsNaN(row.weighted_score)
          [] OTHER -> TRUE

\* the Streamlit section with a table of unrated books only: C is 0.0
C18_Witness ==
    /\ app = "streamlit" /\ df # <<>> /\ NoRatedRow
    /\ C = F(0)
    /\ \A row \in Rows : IsNaN(row.weighted_score) /\ row.rating_votes_power_score = F(0)

\* main.py with a table of unrated audiobooks only: C is undefined and so is every score
C18_MainUndefinedMeanReached ==
    app = "main" /\ df # <<>> /\ IsNaN(C) /\ \A row \in Rows : IsNaN(row.weighted_score)

\* the second Flask application with unrated books only: every score is the default mean
C18_Flask2FallbackReached ==
    /\ app = "flask2" /\ df # <<>> /\ NoRatedRow
    /\ \A row \in Rows : row.bayesian_rating = F(FALLBACK_GLOBAL_MEAN)

-----------------------------------------------------------------------------
(* The scores and the filters *)

\* the table and the mean that a pass with the same m and p, and with every
\* filter, the search and the sort option at their defaults, ends with
ScoresOfDefaultPass ==
    CASE app = "main" ->
            {<<r.df, r.C>> : r \in MainRun(df, [MainDefaults(df) EXCEPT !.m = params.m])}
      [] app = "streamlit" ->
            {<<r.df, r.C>> :
                r \in StreamlitRun(df, [StreamlitDefaults(df) EXCEPT
                                           !.m_val = params.m_val, !.p = params.p])}
      [] app = "flask2" -> {<<Flask2Loaded(df), m_global_mean_rating(df)>>}
      [] OTHER -> {<<df, C>>}

\* C19: for a fixed table and fixed m and p, the score of every row is the
\* same whatever the filter settings, the search query and the sort option
\* of the pass
C19_ScoresIndependentOfFilters ==
    \A r \in ScoresOfDefaultPass : r[1] = df /\ r[2] = C

\* main.py after the search, the rating threshold, the sort option and m
\* have all been changed: the filter removes a row and a scored row is shown
C19_Witness ==
    /\ app = "main" /\ ~error
    /\ params.search_query # <<>>
    /\ params.sort_by # "Weighted Score (Recommended)"
    /\ params.min_rating_threshold = F(0)
    /\ params.m # MAIN_DEFAULT_WEIGHTED_SCORE_ANCHOR_VOTES
    /\ sorted_df # <<>> /\ Len(sorted_df) < Len(df)
    /\ \E j \in Positions : notna(sorted_df[j].weighted_score)

-----------------------------------------------------------------------------
(* The rows shown and the rows loaded *)

\* the columns that come from the data file
MainSourceFields ==
    {"name", "author", "narrator", "price", "total_minutes", "language", "rating", "votes"}

BookSourceFields ==
    {"title", "authors", "publisher", "series", "average_rating", "ratings_count",
     "likedPercent", "genres_list", "language_code", "bookFormat", "publication_year",
     "num_pages", "price"}

SourceFields == IF app = "main" THEN MainSourceFields ELSE BookSourceFields

\* C20: under every sort option, every row shown has the source attributes
\* of the loaded row it comes from (a missing rating stays missing); only
\* the score columns are added
C20_SourceAttributesUnchanged ==
    \A j \in Positions :
        \A f \in SourceFields : sorted_df[j][f] = df[sorted_df[j].idx][f]

\* every variant but the second Flask application
SortWithoutFillApps == {"main", "streamlit", "flask1"}

C20_UnchangedWithoutFill ==
    app \in SortWithoutFillApps => C20_SourceAttributesUnchanged

RatingColumns == {"rating", "average_rating"}

C20_UnchangedWithoutFillReached ==
    /\ app \in SortWithoutFillApps /\ ~Ascending
    /\ SortKeyHere[1] \in RatingColumns
    /\ \E j \in Positions : IsNaN(RatingOf(sorted_df[j]))

-----------------------------------------------------------------------------
(* The Flask requests and BOOKS_DF *)

\* C21: in both Flask applications a request leaves the loaded table as it
\* is, and its response is the response computed from that table and the
\* request's own arguments, whatever requests came before
C21_RequestsLeaveCorpusAlone ==
    [][/\ app = "flask2" =>
            /\ df' = df
            /\ sorted_df' = Flask2Index(df, params').sorted_df
            /\ page' = Flask2Index(df, params').page
       /\ app = "flask1" =>
            /\ df' = df
            /\ sorted_df' \in Flask1Index(df, params')]_vars

\* the second Flask application after requests that changed the search, the
\* rating threshold and the sort option: the page shows fewer books than
\* are loaded, one of them with its rating filled for the sort, while the
\* loaded row still has no rating
C21_Witness ==
    /\ app = "flask2"
    /\ params.search_query # <<>>
    /\ params.sort_by = "average_rating_desc"
    /\ sorted_df # <<>> /\ Len(sorted_df) < Len(df)
    /\ \E j \in Positions :
          /\ sorted_df[j].average_rating = F(-1)
          /\ IsNaN(df[sorted_df[j].idx].average_rating)

-----------------------------------------------------------------------------
(* The pass that keeps no row *)

\* main.py:312: the link column is assigned from the name column whatever
\* the sorted frame holds
MainSortedColumns(sorted) == MainSourceFields \cup {"weighted_score"} \cup {"Audible Link"}

\* the Streamlit frame when the link column is assigned to shown rows only
StSortedColumnsOfShownRows(sorted) ==
    BookSourceFields
        \cup (IF sorted # <<>> /\ "title" \in BookSourceFields
              THEN {"Audible Link URL"} ELSE {})

\* bookApp.py:396-399: the link column is computed from the titles of a frame
\* with rows, and added as an empty column to a frame without
StSortedColumns(sorted) ==
    BookSourceFields
        \cup (IF sorted # <<>> /\ "title" \in BookSourceFields
              THEN {"Audible Link URL"}
              ELSE IF "Audible Link URL" \notin BookSourceFields
                   THEN {"Audible Link URL"} ELSE {})

\* the search pattern compiles, so the filter masks are evaluated
FilterEvaluates ==
    ~(app = "main" /\ params.search_query # <<>> /\ regex_invalid(params.search_query))

NoRowPasses ==
    /\ FilterEvaluates
    /\ \A i \in 1..Len(df) : \E pred \in ActivePredicates : ~Satisfies(pred, df[i])

C22_MainEmptyReached == app = "main" /\ df # <<>> /\ NoRowPasses

C22_Flask1EmptyReached == app = "flask1" /\ df # <<>> /\ NoRowPasses

C22_Flask2EmptyPageTwoReached ==
    app = "flask2" /\ df # <<>> /\ NoRowPasses /\ params.page = 2

-----------------------------------------------------------------------------
(* main.py with no language selected *)

\* C23: in main.py, when the language multi-select is empty, no row is shown,
\* whatever the table, rows without a language included
C23_NoLanguageShowsNothing ==
    app = "main" /\ params.selected_languages = {} /\ ~error => sorted_df = <<>>

\* the selection is empty and a row without a language is shown
C23_RowWithoutLanguageShown ==
    /\ app = "main" /\ params.selected_languages = {} /\ ~error
    /\ \E j \in 1..Len(sorted_df) : sorted_df[j].language = NoCat

\* main.py shows, under an empty selection, exactly the rows without a
\* language that pass the other filters
C23_ShownAreRowsWithoutLanguage ==
    app = "main" /\ params.selected_languages = {} /\ ~error =>
        DisplayedIdx =
            {i \in 1..Len(df) :
                /\ df[i].language = NoCat
                /\ \A q \in ActivePredicates \ MultiSelectPredicates : Satisfies(q, df[i])}

-----------------------------------------------------------------------------
(* parse_time of main.py (load_data): the 'time' column, e.g.               *)
(* "2 hrs and 3 mins", becomes total_minutes.  SpecTime runs the function   *)
(* on its own, one loop iteration at a time, on strings of up to MaxWords   *)
(* words joined by single spaces.                                           *)

MaxWords == 5

DecimalChars == {"0", "1", "2", "3", "4", "5", "6", "7", "8", "9"}

\* a character for which str.isdigit() is True and int() raises ValueError,
\* such as the superscript two
SuperscriptTwo == "sup2"

DigitValue(ch) ==
    CASE ch = "0" -> 0 [] ch = "1" -> 1 [] ch = "2" -> 2 [] ch = "3" -> 3 [] ch = "4" -> 4
      [] ch = "5" -> 5 [] ch = "6" -> 6 [] ch = "7" -> 7 [] ch = "8" -> 8 [] ch = "9" -> 9

DigitChars == DecimalChars \cup {SuperscriptTwo}

\* str.isdigit(): not empty, and every character is a digit
isdigit(w) == w # <<>> /\ \A k \in 1..Len(w) : w[k] \in DigitChars

\* int(w) raises ValueError unless every character is a decimal digit
int_raises(w) == w = <<>> \/ \E k \in 1..Len(w) : w[k] \notin DecimalChars

\* int(w) of decimal digits
int(w) ==
    LET V[k \in 0..Len(w)] == IF k = 0 THEN 0 ELSE 10 * V[k - 1] + DigitValue(w[k])
    IN  V[Len(w)]

\* str.replace(old, new): the occurrences of old, found left to right without
\* overlap, are replaced
replace(s, old, new) ==
    LET n == Len(s)
        m == Len(old)
        \* the result from position k of s on
        R[k \in 1..(n + 1)] ==
            IF k + m - 1 > n THEN SubSeq(s, k, n)
            ELSE IF SubSeq(s, k, k + m - 1) = old THEN new \o R[k + m]
            ELSE <<s[k]>> \o R[k + 1]
    IN  R[1]

\* str.split(): the maximal runs of characters other than the space
split(s) ==
    LET n == Len(s)
        \* the words of s from position k on
        S[k \in 1..(n + 1)] ==
            IF k > n THEN <<>>
            ELSE IF s[k] = " " THEN S[k + 1]
            ELSE LET ends == {j \in k..n : s[j] = " "}
                     e == IF ends = {} THEN n + 1 ELSE MinOf(ends)
                 IN  <<SubSeq(s, k, e - 1)>> \o S[e]
    IN  S[1]

StrAnd == <<" ", "a", "n", "d", " ">>
StrMins == <<"m", "i", "n", "s">>
StrHr == <<"h", "r">>
StrHour == <<"h", "o", "u", "r">>
StrMin == <<"m", "i", "n">>

Only(S) == CHOOSE v \in S : TRUE

\* main.py:48: str(time_str).replace(' and ', ' ').replace('mins', '').split(),
\* each string computed once from the one before
ParseTimeParts(time_str) ==
    Only({split(without_mins) :
            without_mins \in {replace(without_and, StrMins, <<>>) :
                without_and \in {replace(time_str, StrAnd, <<" ">>)}}})

\* main.py:46-50: the missing value returns 0 at once; otherwise the string is
\* split and the loop starts at i = 0
ParseTimeEntry(time_str) ==
    IF time_str = NoStr
    THEN [fn |-> "parse_time", time_str |-> time_str, pc |-> "returned", parts |-> <<>>,
          i |-> 0, total_minutes |-> 0, result |-> 0]
    ELSE [fn |-> "parse_time", time_str |-> time_str, pc |-> "loop",
          parts |-> ParseTimeParts(time_str), i |-> 0, total_minutes |-> 0, result |-> 0]

\* an iteration that leaves the index where it is at a token that is no number
ParseTimeIterationStuck(f) ==
    LET tok == f.parts[f.i + 1]
    IN  IF ~isdigit(tok) THEN f
        ELSE [f EXCEPT !.total_minutes = @ + (IF int_raises(tok) THEN 0 ELSE int(tok)),
                       !.i = @ + 1]

\* an iteration that steps over the token after a number whatever it is
ParseTimeIterationSkipping(f) ==
    LET tok == f.parts[f.i + 1]
    IN  IF ~isdigit(tok) THEN [f EXCEPT !.i = @ + 1]
        ELSE IF int_raises(tok) THEN [f EXCEPT !.pc = "returned", !.result = 0]
        ELSE IF f.i + 1 < Len(f.parts)
                /\ (\/ contains_literal(lower(f.parts[f.i + 2]), StrHr)
                    \/ contains_literal(lower(f.parts[f.i + 2]), StrHour))
             THEN [f EXCEPT !.total_minutes = @ + int(tok) * 60, !.i = @ + 2]
             ELSE [f EXCEPT !.total_minutes = @ + int(tok), !.i = @ + 2]

\* main.py:52-69: one iteration of the while loop; parts[i] of the code is
\* parts[i + 1] here.  int() raising ends the call in the except clause
\* (main.py:70-72), which returns 0
ParseTimeIteration(f) ==
    LET tok == f.parts[f.i + 1]
    IN  IF ~isdigit(tok) THEN [f EXCEPT !.i = @ + 1]
        ELSE IF int_raises(tok) THEN [f EXCEPT !.pc = "returned", !.result = 0]
        ELSE LET value == int(tok)
             IN  IF f.i + 1 < Len(f.parts)
                 THEN LET unit == lower(f.parts[f.i + 2])
                      IN  IF contains_literal(unit, StrHr) \/ contains_literal(unit, StrHour)
                          THEN [f EXCEPT !.total_minutes = @ + value * 60, !.i = @ + 2]
                          ELSE IF contains_literal(unit, StrMin)
                          THEN [f EXCEPT !.total_minutes = @ + value, !.i = @ + 2]
                          ELSE [f EXCEPT !.total_minutes = @ + value, !.i = @ + 1]
                 ELSE [f EXCEPT !.total_minutes = @ + value, !.i = @ + 1]

\* the words of the 'time' column and words that try the branches
TimeWords ==
    {<<"2">>, <<"3">>, <<"h", "r", "s">>, <<"H", "r", "s">>, <<"a", "n", "d">>,
     <<"m", "i", "n", "s">>, <<"m", "i", "n">>, <<SuperscriptTwo>>}

Join(ws) ==
    LET J[k \in 1..Len(ws)] == IF k = Len(ws) THEN ws[k] ELSE ws[k] \o <<" ">> \o J[k + 1]
    IN  J[1]

WordSeqs == SeqsUpTo(TimeWords, MaxWords)

\* a value of the 'time' column: missing, empty, or words joined by spaces
NoWords == {NoStr, <<>>}

ParseTimeCall(time_str) ==
    [fn |-> "parse_time", time_str |-> time_str, pc |-> "entry", parts |-> <<>>,
     i |-> 0, total_minutes |-> 0, result |-> 0]

\* load_data has read the file and is about to apply parse_time to a value
\* of the 'time' column (main.py:78)
InitTime ==
    /\ app = "main"
    /\ df = <<>> /\ sorted_df = <<>> /\ C = NaN /\ page = NoPage /\ error = FALSE
    /\ params = [stage |-> "load_data"]
    /\ \/ \E time_str \in NoWords : call = ParseTimeCall(time_str)
       \/ \E ws \in WordSeqs : call = ParseTimeCall(Join(ws))

ParseTimeEnter ==
    /\ call.fn = "parse_time" /\ call.pc = "entry"
    /\ call' = ParseTimeEntry(call.time_str)
    /\ UNCHANGED <<app, df, C, params, sorted_df, page, error>>

\* main.py:52: while i < len(parts)
ParseTimeLoop ==
    /\ call.fn = "parse_time" /\ call.pc = "loop" /\ call.i < Len(call.parts)
    /\ call' = ParseTimeIteration(call)
    /\ UNCHANGED <<app, df, C, params, sorted_df, page, error>>

\* main.py:76
ParseTimeReturn ==
    /\ call.fn = "parse_time" /\ call.pc = "loop" /\ call.i >= Len(call.parts)
    /\ call' = [call EXCEPT !.pc = "returned", !.result = call.total_minutes]
    /\ UNCHANGED <<app, df, C, params, sorted_df, page, error>>

NextTime == ParseTimeEnter \/ ParseTimeLoop \/ ParseTimeReturn

\* the interpreter keeps executing the call: no step of it waits for anything
SpecTime == InitTime /\ [][NextTime]_vars /\ WF_vars(NextTime)

OneOrTwo == {1, 2}

C24_MissingReturnsZero ==
    call.fn = "parse_time" /\ call.pc = "returned" /\ call.time_str = NoStr /\ call.result = 0

\* a token str.isdigit() accepts and int() refuses has ended the call with 0
C24_ExceptionReturnsZero ==
    /\ call.fn = "parse_time" /\ call.pc = "returned" /\ call.result = 0
    /\ call.total_minutes > 0 /\ call.i < Len(call.parts)

\* the unit test of the loop, on the lower-cased token (main.py:56-57)
IsHourUnit(tok) ==
    contains_literal(lower(tok), StrHr) \/ contains_literal(lower(tok), StrHour)

\* the sum the loop is meant to reach over the first n tokens: every token of
\* decimal digits counts 60 times its value before an hour unit and its value
\* otherwise
MinutesOf(parts, n) ==
    LET M[k \in 0..n] ==
            IF k = 0 THEN 0
            ELSE IF ~isdigit(parts[k]) \/ int_raises(parts[k]) THEN M[k - 1]
            ELSE IF k < Len(parts) /\ IsHourUnit(parts[k + 1])
                 THEN M[k - 1] + 60 * int(parts[k])
                 ELSE M[k - 1] + int(parts[k])
    IN  M[n]

\* the same sum with the unit looked for in the token as it is written
LiteralMinutesOf(parts, n) ==
    LET M[k \in 0..n] ==
            IF k = 0 THEN 0
            ELSE IF ~isdigit(parts[k]) \/ int_raises(parts[k]) THEN M[k - 1]
            ELSE IF k < Len(parts)
                    /\ (\/ contains_literal(parts[k + 1], StrHr)
                        \/ contains_literal(parts[k + 1], StrHour))
                 THEN M[k - 1] + 60 * int(parts[k])
                 ELSE M[k - 1] + int(parts[k])
    IN  M[n]

\* some token passes isdigit() and is refused by int()
SomeTokenRefused(parts) ==
    \E k \in 1..Len(parts) : isdigit(parts[k]) /\ int_raises(parts[k])

\* C25 as stated: for every token sequence parse_time returns the sum, over
\* the all-digit tokens, of 60 times the value when the next token contains
\* 'hr' or 'hour' and of the value otherwise
C25_SumForEveryTokenSequence ==
    call.fn = "parse_time" /\ call.pc = "returned" /\ call.time_str # NoStr =>
        call.result = LiteralMinutesOf(call.parts, Len(call.parts))

\* C25, amended: when int() accepts every token that isdigit() accepts,
\* parse_time returns the sum, over those tokens, of 60 times the value when
\* the next token, lower-cased, contains 'hr' or 'hour', and of the value
\* otherwise; when int() refuses one of them it returns 0.  While the loop
\* runs, the minutes counted so far are that sum over the tokens before the
\* index, so no numeric token is stepped over.
C25_SumOfAcceptedTokens ==
    /\ call.fn = "parse_time" /\ call.pc = "loop" =>
          /\ call.i <= Len(call.parts)
          /\ call.total_minutes = MinutesOf(call.parts, call.i)
          /\ call.i > 0 /\ call.i < Len(call.parts) =>
                ~(isdigit(call.parts[call.i]) /\ IsHourUnit(call.parts[call.i + 1]))
    /\ call.fn = "parse_time" /\ call.pc = "returned" /\ call.time_str # NoStr =>
          call.result = IF SomeTokenRefused(call.parts) THEN 0
                        ELSE MinutesOf(call.parts, Len(call.parts))

\* "2 Hrs 3 min 3" has returned 126: the hours are written with a capital,
\* a unit was stepped over twice and the last number has no unit
C25_Witness ==
    /\ call.fn = "parse_time" /\ call.pc = "returned"
    /\ call.parts = <<<<"2">>, <<"H", "r", "s">>, <<"3">>, <<"m", "i", "n">>, <<"3">>>>
    /\ call.result = 126

\* the three forms of the 'time' column: "2 hrs and 3 mins" gives 123,
\* "2 hrs" gives 120 and "3 mins" gives 3
C25_ThreeFormsReached ==
    /\ call.fn = "parse_time" /\ call.pc = "returned"
    /\ \/ call.time_str = Join(<<<<"2">>, <<"h", "r", "s">>>>) /\ call.result = 120
       \/ call.time_str = Join(<<<<"3">>, <<"m", "i", "n", "s">>>>) /\ call.result = 3

-----------------------------------------------------------------------------
(* Every filter at its widest *)

\* main.py: the thresholds at 0, both sliders at their full extent, 'All'
\* languages and no search
MainWidest ==
    /\ app = "main"
    /\ FEq(params.min_rating_threshold, F(0)) /\ params.min_votes_threshold = 0
    /\ params.price = MainDefaults(df).price /\ params.time = MainDefaults(df).time
    /\ params.selected_languages = MainDefaults(df).selected_languages
    /\ params.search_query = <<>>

\* Streamlit section: the thresholds at 0, the sliders at their full extent,
\* nothing selected and no search
StreamlitWidest ==
    /\ app = "streamlit"
    /\ FEq(params.min_rating_threshold, F(0)) /\ params.min_votes_threshold = 0
    /\ params.min_liked_percent = 0
    /\ params.selected_genres = {} /\ params.selected_formats = {}
    /\ params.selected_languages_multiselect = StreamlitDefaults(df).selected_languages_multiselect
    /\ params.selected_year_range = StreamlitDefaults(df).selected_year_range
    /\ params.page_range = StreamlitDefaults(df).page_range
    /\ params.selected_price_range = StreamlitDefaults(df).selected_price_range
    /\ params.search_query = <<>>

\* C26: with every filter control at its widest setting every row of the
\* loaded table is shown, rows with an unknown year, a missing or zero price
\* or a missing language included
C26_WidestFilterIsIdentity ==
    (MainWidest \/ StreamlitWidest) /\ ~error => DisplayedIdx = 1..Len(df)

\* main.py at its widest settings: an audiobook without a price is loaded
\* and is not shown
C26_RowWithoutPriceDropped ==
    /\ MainWidest /\ ~error
    /\ \E i \in 1..Len(df) : IsNaN(df[i].price) /\ i \notin DisplayedIdx

-----------------------------------------------------------------------------
(* The pages of the second Flask application.  BOOKS_PER_PAGE is 24, so    *)
(* the tables of the other specifications fill one page.  SpecPage runs the *)
(* last part of index() (bookApp.py:1689-1691 and 1791-1815) on the sorted, *)
(* filtered frame that the first part hands over, for frames of up to       *)
(* MaxBooks rows of which only the row number is kept.                      *)

MaxBooks == 241

MaxPageRequest == 13

PageRequests == (0 - 1)..MaxPageRequest

BookRows(n) == [i \in 1..n |-> [idx |-> i]]

FrameSizes == 0..MaxBooks

\* the first request, without a page argument: page 1 of n books
InitPage ==
    /\ app = "flask2"
    /\ \E n \in FrameSizes :
          /\ df = BookRows(n)
          /\ sorted_df = BookRows(n)
          /\ page = Paginate(BookRows(n), 1)
    /\ params = [page |-> 1]
    /\ C = NaN /\ error = FALSE /\ call = NoCall

\* a request for another page of the same list
Flask2PageRequest ==
    /\ app = "flask2"
    /\ \E p \in PageRequests :
          /\ params' = [page |-> p]
          /\ page' = Paginate(sorted_df, p)
    /\ UNCHANGED <<app, df, C, sorted_df, error, call>>

SpecPage == InitPage /\ [][Flask2PageRequest]_vars

\* C27: whenever at least one book passes the filters, the page rendered
\* holds at least 1 and at most BOOKS_PER_PAGE books, whatever page number
\* was requested; a request below 1 is served page 1 and a request above
\* total_pages is served the last page
C27_PageNeverEmpty ==
    app = "flask2" /\ sorted_df # <<>> =>
        /\ Len(page.books) >= 1 /\ Len(page.books) <= BOOKS_PER_PAGE
        /\ page.current_page \in 1..page.total_pages
        /\ params.page < 1 => page.current_page = 1
        /\ params.page > page.total_pages => page.current_page = page.total_pages
        /\ params.page \in 1..page.total_pages => page.current_page = params.page

\* 50 books and page 13 requested: page 3, the last, is served with 2 books
C27_Witness ==
    /\ app = "flask2" /\ Len(sorted_df) = 50 /\ params.page = 13
    /\ page.current_page = 3 /\ Len(page.books) = 2

\* page 0 of 50 books requested: page 1 is served with 24 books
C27_PageZeroReached ==
    /\ app = "flask2" /\ Len(sorted_df) = 50 /\ params.page = 0
    /\ page.current_page = 1 /\ Len(page.books) = BOOKS_PER_PAGE

\* the slices of pages 1 to k of the list, one after the other
PagesUpTo(sorted, k) ==
    LET P[j \in 0..k] == IF j = 0 THEN <<>> ELSE P[j - 1] \o Paginate(sorted, j).books
    IN  P[k]

\* C28: the pages 1..total_pages partition the sorted, filtered list:
\* total_pages is the ceiling of n / BOOKS_PER_PAGE, the slices of the pages
\* joined in order are the list, and every page but the last holds exactly
\* BOOKS_PER_PAGE books
C28_PagesPartitionTheList ==
    app = "flask2" =>
        LET n == Len(sorted_df)
            total_pages == page.total_pages
        IN  /\ total_pages * BOOKS_PER_PAGE >= n
            /\ (total_pages - 1) * BOOKS_PER_PAGE < n \/ (n = 0 /\ total_pages = 0)
            /\ PagesUpTo(sorted_df, total_pages) = sorted_df
            /\ \A p \in 1..(total_pages - 1) :
                  Len(Paginate(sorted_df, p).books) = BOOKS_PER_PAGE
            /\ page.books = Paginate(sorted_df, page.current_page).books
            /\ page.current_page < total_pages => Len(page.books) = BOOKS_PER_PAGE

\* 50 books on 3 pages; page 2 is served and holds books 25 to 48
C28_Witness ==
    /\ app = "flask2" /\ Len(sorted_df) = 50 /\ page.total_pages = 3
    /\ page.current_page = 2
    /\ page.books = SubSeq(sorted_df, 25, 48)

\* a list that fills its last page: 48 books on 2 pages
C28_FullLastPageReached ==
    /\ app = "flask2" /\ Len(sorted_df) = 48 /\ page.total_pages = 2
    /\ page.current_page = 2 /\ Len(page.books) = BOOKS_PER_PAGE

\* the page numbers of a window, in the order listed
WindowPages(w) ==
    LET IsPage(x) == x # Ellipsis
    IN  SelectSeq(w, IsPage)

\* C29: for total_pages > 1 the pagination window lists page numbers in
\* strictly increasing order, starts with 1, ends with total_pages and
\* contains the current page; an ellipsis stands between two listed page
\* numbers exactly when they are not consecutive, and nowhere else
C29_WindowWellFormed ==
    app = "flask2" /\ page.total_pages > 1 =>
        LET w == page.pagination_window
            pages == WindowPages(w)
        IN  /\ page.current_page \in 1..page.total_pages
            /\ w # <<>> /\ w[1] = 1 /\ w[Len(w)] = page.total_pages
            /\ \A k \in 1..(Len(pages) - 1) : pages[k] < pages[k + 1]
            /\ \A k \in 1..Len(pages) : pages[k] \in 1..page.total_pages
            /\ \E k \in 1..Len(w) : w[k] = page.current_page
            /\ \A k \in 1..(Len(w) - 1) :
                  /\ w[k] = Ellipsis =>
                        /\ k > 1 /\ w[k - 1] # Ellipsis /\ w[k + 1] # Ellipsis
                        /\ w[k + 1] > w[k - 1] + 1
                  /\ w[k] # Ellipsis /\ w[k + 1] # Ellipsis => w[k + 1] = w[k] + 1

\* 11 pages, page 6 served: 1 ... 4 5 6 7 8 ... 11
C29_Witness ==
    /\ app = "flask2" /\ page.total_pages = 11 /\ page.current_page = 6
    /\ page.pagination_window = <<1, Ellipsis, 4, 5, 6, 7, 8, Ellipsis, 11>>

\* 10 pages, page 4 served: no ellipsis after 1; 9 pages: every page listed
C29_NoLeadingEllipsisReached ==
    /\ app = "flask2" /\ page.total_pages = 10 /\ page.current_page = 4
    /\ page.pagination_window = <<1, 2, 3, 4, 5, 6, Ellipsis, 10>>

C29_ShortListReached ==
    /\ app = "flask2" /\ page.total_pages = 9
    /\ page.pagination_window = <<1, 2, 3, 4, 5, 6, 7, 8, 9>>

-----------------------------------------------------------------------------
(* The star rating of a rendered book *)

\* int() of a finite float: towards zero
IntOfFloat(x) == IF x[1] >= 0 THEN x[1] \div x[2] ELSE 0 - ((0 - x[1]) \div x[2])

Quarter == <<1, 4>>
ThreeQuarters == <<3, 4>>

\* bookApp.py:1175-1195: the N/A marker, or the numbers of full, half and
\* empty stars and the value printed after them; a negative repeat count
\* prints no glyph
get_star_rating_html(rating_val) ==
    IF IsNaN(rating_val) \/ FEq(rating_val, F(0))
    THEN [na |-> TRUE, full_stars |-> 0, half_star |-> 0, empty_stars |-> 0, glyphs |-> 0,
          rating_val |-> rating_val]
    ELSE LET whole == IntOfFloat(rating_val)
             half_star_val == FAdd(rating_val, F(0 - whole))
             full_stars == IF FGe(half_star_val, ThreeQuarters) THEN whole + 1 ELSE whole
             half_star == IF /\ ~FGe(half_star_val, ThreeQuarters)
                             /\ FGe(half_star_val, Quarter) THEN 1 ELSE 0
             empty_stars == 5 - full_stars - half_star
         IN  [na |-> FALSE, full_stars |-> full_stars, half_star |-> half_star,
              empty_stars |-> empty_stars,
              glyphs |-> MaxOf({full_stars, 0}) + half_star + MaxOf({empty_stars, 0}),
              rating_val |-> rating_val]

RenderedBooks == {page.books[k] : k \in 1..Len(page.books)}

\* C30: in the second Flask application, under every sort option, every
\* rendered book gets the N/A marker when its rating is missing or 0, and
\* otherwise exactly five star glyphs, with between 0 and 5 empty stars, for
\* a printed rating between 0 and 5
C30_StarsWellFormed ==
    app = "flask2" =>
        \A book \in RenderedBooks :
            LET html == get_star_rating_html(book.average_rating)
                loaded == df[book.idx].average_rating
            IN  /\ IsNaN(loaded) \/ FEq(loaded, F(0)) => html.na
                /\ ~html.na =>
                      /\ html.glyphs = 5
                      /\ html.full_stars >= 0
                      /\ html.empty_stars \in 0..5
                      /\ FLe(F(0), html.rating_val) /\ FLe(html.rating_val, F(5))

\* sorted by rating, an unrated book is rendered with six empty stars and
\* the value -1
C30_SixEmptyStarsReached ==
    /\ app = "flask2"
    /\ \E book \in RenderedBooks :
          /\ IsNaN(df[book.idx].average_rating)
          /\ get_star_rating_html(book.average_rating).empty_stars = 6
          /\ get_star_rating_html(book.average_rating).rating_val = F(-1)

\* under the sort options that do not sort by the rating the stars are as
\* the claim says
RatingSortOptions == {"average_rating_desc", "ratings_count_desc"}

C30_StarsWellFormedWithoutFill ==
    app = "flask2" /\ params.sort_by \notin RatingSortOptions => C30_StarsWellFormed

====
